---- MODULE Spec2Model ----
(***************************************************************************)
(* Verification model of the rotation puzzle solver (proc36):              *)
(*   lib/operation.hpp, lib/field.cpp      board primitive                  *)
(*   solver/beam_stack_search.cpp          move generator, evaluator,       *)
(*                                         beam search driver               *)
(* Boards are functions from the row-major index y * size_ + x to labels.  *)
(***************************************************************************)
EXTENDS Integers, Sequences, FiniteSets, TLC

VARIABLES
    \* a field and the calls made on it (SpecApply, SpecPairs)
    size_,      \* Field::size_
    cells_,     \* Field::cells_, a function 0 .. size_*size_-1 -> Int
    board0,     \* the cells the field was constructed with
    history,    \* the operations applied so far (the owner's operation path)
    before,     \* cells_ as they were when the last call started
    call,       \* the last call on the field and what it returned / threw
    run,        \* the operation repeated by the last successful applies, and how often
    runStart    \* cells_ as they were before the first apply of the current run

fieldVars == <<size_, cells_, board0, history, before, call, run, runStart>>

VARIABLES
    \* one call of BeamStackSearchSolver::solve (Spec)
    problem,    \* the Problem solved: size and entities
    config,     \* config_
    pc,         \* the statement solve has reached
    now,        \* the last reading of timer.elapsed_ms()
    result,     \* result: operations, status, explored_nodes, solved
    best_score, \* best_score
    drv,        \* locals of solve: base_limits, iter_limits, current_root, iteration, shakes_used
    iter,       \* locals of run_search_iteration
    shk,        \* locals of apply_shake
    ref         \* locals of greedy_refinement

solverVars == <<problem, config, pc, now, result, best_score, drv, iter, shk, ref>>

vars == <<fieldVars, solverVars>>

(***************************************************************************)
(* Bounds of the model.                                                    *)
(***************************************************************************)
\* std::size_t is modelled as an unsigned integer of WordBits bits.
WordBits == 4
\* longest sequence of runs of one repeated operation explored by SpecApply
MaxRuns == 2
\* longest operation history explored by SpecPairs
MaxOps == 2

Modulus == 2 ^ WordBits
SIZE_MAX == Modulus - 1
Wrap(v) == v % Modulus

Max(a, b) == IF a > b THEN a ELSE b
Min(a, b) == IF a < b THEN a ELSE b
Abs(a) == IF a < 0 THEN 0 - a ELSE a

\* a row-major vector given as a tuple
Board(seq) == [i \in 0 .. Len(seq) - 1 |-> seq[i + 1]]
cell_count(cells) == Cardinality(DOMAIN cells)

NoOp == [x |-> 0, y |-> 0, size |-> 0]
Operation(x, y, k) == [x |-> x, y |-> y, size |-> k]

(***************************************************************************)
(* lib/operation.hpp                                                       *)
(***************************************************************************)
\* x + size and y + size are std::size_t sums: they wrap.
is_valid_noLower(op, field_size) ==
    /\ ~(op.size > field_size)
    /\ ~(Wrap(op.x + op.size) > field_size \/ Wrap(op.y + op.size) > field_size)

is_valid(op, field_size) ==
    /\ ~(op.size < 2 \/ op.size > field_size)
    /\ ~(Wrap(op.x + op.size) > field_size \/ Wrap(op.y + op.size) > field_size)

(***************************************************************************)
(* lib/field.cpp: access and rotation                                      *)
(***************************************************************************)
in_bounds(N, x, y) == x < N /\ y < N

\* Field::at after its bounds check
at(cells, N, x, y) == cells[y * N + x]

is_valid_operation(N, op) == is_valid(op, N)

\* source row / column of the buffer cell written to (dx, dy)
src_row_ccw(k, dx, dy) == dx
src_row(k, dx, dy) == k - 1 - dx

src_col_typo(k, dx, dy) == dx
src_col(k, dx, dy) == dy

\* the k*k buffer read by the first loop nest
original(cells, N, op) ==
    [i \in 0 .. op.size * op.size - 1 |->
        at(cells, N, op.x + (i % op.size), op.y + (i \div op.size))]

\* every at()/set() of the loops passes its bounds check
AccessInBounds(N, op) ==
    \A dy \in 0 .. op.size - 1 : \A dx \in 0 .. op.size - 1 :
        in_bounds(N, Wrap(op.x + dx), Wrap(op.y + dy))

\* Field::apply: the error thrown ("none" when it returns) and the cells left
apply(cells, N, op) ==
    IF ~is_valid_operation(N, op)
    THEN [err |-> "invalid_argument", cells |-> cells]
    ELSE IF ~AccessInBounds(N, op)
         THEN [err |-> "out_of_range", cells |-> cells]
         ELSE LET k == op.size
                  buf == original(cells, N, op)
              IN  [err |-> "none",
                   cells |->
                     [idx \in DOMAIN cells |->
                        LET dx == (idx % N) - op.x
                            dy == (idx \div N) - op.y
                        IN  IF dx \in 0 .. k - 1 /\ dy \in 0 .. k - 1
                            THEN buf[src_row(k, dx, dy) * k + src_col(k, dx, dy)]
                            ELSE cells[idx]]]

\* Field::applied on a valid operation
applied(cells, N, op) == apply(cells, N, op).cells

\* every operation the enumeration of the move generator can produce
ValidOps(N) ==
    {op \in [x : 0 .. N, y : 0 .. N, size : 2 .. N] : is_valid(op, N)}

\* operations handed to Field::apply by a caller: in range, just off the
\* grid, and at the top of the std::size_t range
Coords(N) == (0 .. N) \cup {SIZE_MAX}
AnyOps(N) == [x : Coords(N), y : Coords(N), size : (0 .. N + 1) \cup {SIZE_MAX}]

(***************************************************************************)
(* lib/field.cpp: positions_of                                             *)
(***************************************************************************)
Position(x, y) == [x |-> x, y |-> y]

RECURSIVE positions_scan(_, _, _, _, _)
positions_scan(cells, N, value, idx, res) ==
    IF idx >= N * N
    THEN res
    ELSE positions_scan(cells, N, value, idx + 1,
            IF cells[idx] = value
            THEN Append(res, Position(idx % N, idx \div N))
            ELSE res)

positions_of(cells, N, value) == positions_scan(cells, N, value, 0, <<>>)

(***************************************************************************)
(* lib/field.cpp: pair detection                                           *)
(***************************************************************************)
\* PairMetrics{} as default-constructed
EmptyMetrics ==
    [status |-> [matched |-> 0, unmatched |-> 0],
     total_unmatched_distance |-> 0,
     max_unmatched_distance |-> 0,
     unmatched_mask |-> [i \in {} |-> 0]]

\* the cell is skipped by the scan
ignored_zero(value) == value <= 0
ignored(value) == value < 0

\* two cells at this distance form a matched pair
is_matched_any(distance) == distance <= 1
is_matched(distance) == distance = 1

manhattan_x(ax, ay, bx, by) == Abs(ax - bx)
manhattan(ax, ay, bx, by) == Abs(ax - bx) + Abs(ay - by)

\* mask after an unmatched pair (first_index, idx) was found
mark_second_only(mask, first_index, idx) == [mask EXCEPT ![idx] = 1]
mark(mask, first_index, idx) == [mask EXCEPT ![first_index] = 1, ![idx] = 1]

\* first: first_indices / first_positions, defined on the labels already seen
\* (an entry equal to the SIZE_MAX sentinel is an absent one)
\* first_indices after the loop body ran on cell idx
first_after(cells, idx, first) ==
    LET value == cells[idx] IN
    IF ignored(value)
    THEN first
    ELSE IF value \notin DOMAIN first
    THEN (value :> idx) @@ first
    ELSE first

\* metrics after the loop body ran on cell idx
metrics_after(cells, N, idx, first, metrics) ==
    LET value == cells[idx] IN
    IF ignored(value)
    THEN metrics
    ELSE IF value \notin DOMAIN first
    THEN metrics
    ELSE LET first_index == first[value]
             distance == manhattan(first_index % N, first_index \div N,
                                   idx % N, idx \div N)
         IN  IF is_matched(distance)
             THEN [metrics EXCEPT !.status.matched = @ + 1]
             ELSE [metrics EXCEPT
                      !.status.unmatched = @ + 1,
                      !.total_unmatched_distance = @ + distance,
                      !.max_unmatched_distance = Max(@, distance),
                      !.unmatched_mask = mark(@, first_index, idx)]

\* the loop body run on the cells lo .. hi - 1, in the order of idx
\* (the range is cut in halves, the first half feeding the second, so that the
\* evaluation of a large board stays shallow; the test on acc is never true, it
\* makes TLC evaluate the first half before it enters the second)
RECURSIVE scan_range(_, _, _, _, _)
scan_range(cells, N, lo, hi, acc) ==
    IF hi <= lo \/ acc.metrics.status.matched < 0
    THEN acc
    ELSE IF hi = lo + 1
    THEN [first |-> first_after(cells, lo, acc.first),
          metrics |-> metrics_after(cells, N, lo, acc.first, acc.metrics)]
    ELSE scan_range(cells, N, (lo + hi) \div 2, hi,
                    scan_range(cells, N, lo, (lo + hi) \div 2, acc))

\* the loop over idx
scan_pairs(cells, N, idx, first, metrics) ==
    scan_range(cells, N, idx, cell_count(cells),
               [first |-> first, metrics |-> metrics]).metrics

evaluate_pair_metrics(cells, N) ==
    scan_pairs(cells, N, 0, [v \in {} |-> 0],
               [EmptyMetrics EXCEPT !.unmatched_mask = [i \in DOMAIN cells |-> 0]])

evaluate_pairs(cells, N) == evaluate_pair_metrics(cells, N).status

is_goal_state(cells, N) ==
    LET status == evaluate_pairs(cells, N)
    IN  status.unmatched = 0 /\ status.matched * 2 = N * N

(***************************************************************************)
(* solver/beam_stack_search.cpp: move generator                            *)
(***************************************************************************)
\* BeamStackSearchConfig::rotation_sizes
rotation_sizes == <<2, 3, 4, 5>>

nullptr == NoOp

last_op_front(hist) == IF hist = <<>> THEN nullptr ELSE hist[1]
last_op(hist) == IF hist = <<>> THEN nullptr ELSE hist[Len(hist)]

use_mask_always(N, metrics) == cell_count(metrics.unmatched_mask) = N * N
use_mask(N, metrics) ==
    metrics.status.unmatched > 0 /\ cell_count(metrics.unmatched_mask) = N * N

\* the assignment of the loop body at cell (x, y)
prefix_after(mask, N, x, y, prefix) ==
    LET stride == N + 1
        value == mask[y * N + x]
    IN  [prefix EXCEPT ![(y + 1) * stride + (x + 1)] =
            value + prefix[y * stride + (x + 1)]
                  + prefix[(y + 1) * stride + x] - prefix[y * stride + x]]

\* the inner loop over x, for one row y
\* (the test on prefix[0] is never true: row 0 and column 0 stay zero; it makes
\* TLC evaluate the table at every cell)
RECURSIVE fill_row(_, _, _, _, _)
fill_row(mask, N, x, y, prefix) ==
    IF x >= N \/ prefix[0] # 0
    THEN prefix
    ELSE fill_row(mask, N, x + 1, y, prefix_after(mask, N, x, y, prefix))

\* the outer loop over y filling the (N+1) x (N+1) prefix-sum table
RECURSIVE fill_prefix(_, _, _, _)
fill_prefix(mask, N, y, prefix) ==
    IF y >= N \/ prefix[0] # 0
    THEN prefix
    ELSE fill_prefix(mask, N, y + 1, fill_row(mask, N, 0, y, prefix))

prefix_sums(mask, N) ==
    fill_prefix(mask, N, 0, [i \in 0 .. (N + 1) * (N + 1) - 1 |-> 0])

area_sum(prefix, N, masked, x0, y0, k) ==
    IF ~masked
    THEN 1
    ELSE LET stride == N + 1
             x1 == x0 + k
             y1 == y0 + k
         IN  prefix[y1 * stride + x1] - prefix[y0 * stride + x1]
               - prefix[y1 * stride + x0] + prefix[y0 * stride + x0]

\* the (y, x) loop nest for one rotation size
ops_of_size(N, size) ==
    IF size < 2 \/ size > N
    THEN <<>>
    ELSE LET w == N - size + 1
         IN  [i \in 1 .. w * w |-> Operation((i - 1) % w, (i - 1) \div w, size)]

RECURSIVE enumerate_ops(_, _, _)
enumerate_ops(N, sizes, i) ==
    IF i > Len(sizes)
    THEN <<>>
    ELSE ops_of_size(N, sizes[i]) \o enumerate_ops(N, sizes, i + 1)

same_op(a, b) == a.x = b.x /\ a.y = b.y /\ a.size = b.size

\* std::stable_sort by impact, descending
insert_sorted_before_equal(sorted, c) ==
    LET n == Cardinality({i \in 1 .. Len(sorted) : sorted[i].impact > c.impact})
    IN  SubSeq(sorted, 1, n) \o <<c>> \o SubSeq(sorted, n + 1, Len(sorted))
insert_sorted(sorted, c) ==
    LET n == Cardinality({i \in 1 .. Len(sorted) : sorted[i].impact >= c.impact})
    IN  SubSeq(sorted, 1, n) \o <<c>> \o SubSeq(sorted, n + 1, Len(sorted))

\* (the test on sorted is never true; it makes TLC evaluate each insertion
\* before the next one)
RECURSIVE stable_sort(_, _, _)
stable_sort(candidates, i, sorted) ==
    IF i > Len(candidates) \/ Len(sorted) < 0
    THEN sorted
    ELSE stable_sort(candidates, i + 1, insert_sorted(sorted, candidates[i]))

generate_operations(cells, N, hist, metrics, sizes) ==
    LET masked == use_mask(N, metrics)
        prefix == IF masked THEN prefix_sums(metrics.unmatched_mask, N) ELSE <<>>
        last == last_op(hist)
        all == enumerate_ops(N, sizes, 1)
        impact(op) == area_sum(prefix, N, masked, op.x, op.y, op.size)
        keep(op) ==
            /\ is_valid_operation(N, op)
            /\ ~(last # nullptr /\ same_op(last, op))
            /\ ~(masked /\ impact(op) = 0)
        kept == SelectSeq(all, keep)
        candidates == [i \in 1 .. Len(kept) |-> [op |-> kept[i], impact |-> impact(kept[i])]]
        sorted == stable_sort(candidates, 1, <<>>)
    IN  IF masked
        THEN [i \in 1 .. Len(sorted) |-> sorted[i].op]
        ELSE kept

(***************************************************************************)
(* Boards the specifications start from.                                   *)
(***************************************************************************)
\* every label of [0, N*N/2) appears exactly twice, and no other label does
WellFormed(cells, N) ==
    /\ \A i \in DOMAIN cells : cells[i] \in 0 .. (N * N) \div 2 - 1
    /\ \A v \in 0 .. (N * N) \div 2 - 1 :
          Cardinality({i \in DOMAIN cells : cells[i] = v}) = 2

WellFormed2 == {b \in [0 .. 3 -> 0 .. 1] : WellFormed(b, 2)}

WellFormed4 ==
    { Board(<<0, 0, 1, 1,  2, 2, 3, 3,  4, 4, 5, 5,  6, 6, 7, 7>>),
      Board(<<3, 3, 4, 4,  2, 1, 6, 7,  2, 1, 5, 5,  0, 0, 7, 6>>),
      Board(<<1, 3, 5, 1,  0, 2, 4, 3,  0, 2, 4, 5,  6, 6, 7, 7>>) }

\* boards that break the input layer's precondition
IllFormed ==
    { [size |-> 2, cells |-> Board(<<0, 0, 0, 1>>)],
      [size |-> 3, cells |-> Board(<<0, 1, 2,  3, 3, 2,  0, 1, 4>>)] }

\* boards with labels outside [0, N*N/2): negative ones, and labels at or above
\* N*N/2, as a pair of neighbours and as a pair apart
OutOfRange ==
    { [size |-> 2, cells |-> Board(<<-1, -1, 2, 2>>)],
      [size |-> 2, cells |-> Board(<<2, -1, -1, 2>>)],
      [size |-> 2, cells |-> Board(<<-1, 3, 0, -1>>)] }

Board123 == Board(<<1, 2, 3,  4, 5, 6,  7, 8, 9>>)
Board0110 == Board(<<0, 1, 1, 0>>)

(***************************************************************************)
(* SpecApply: a caller (tools/local_runner.cpp) applies operations, valid  *)
(* or not, to a field.                                                     *)
(***************************************************************************)
NoCall == [fn |-> "none"]
NoRun == [op |-> NoOp, count |-> 0, runs |-> 0]

ApplyBoards ==
    {[size |-> 2, cells |-> b] : b \in WellFormed2}
        \cup {[size |-> 3, cells |-> Board123]}

FieldInit(boards) ==
    /\ \E b \in boards :
          /\ size_ = b.size
          /\ cells_ = b.cells
          /\ board0 = b.cells
          /\ before = b.cells
          /\ runStart = b.cells
    /\ history = <<>>
    /\ call = NoCall
    /\ run = NoRun

\* no solve call is in progress
SolverIdle ==
    /\ problem = 0 /\ config = 0 /\ pc = "idle" /\ now = 0 /\ result = 0
    /\ best_score = 0 /\ drv = 0 /\ iter = 0 /\ shk = 0 /\ ref = 0

InitApply == FieldInit(ApplyBoards) /\ SolverIdle

\* field.apply(op), as in the replay loop of local_runner; an exception
\* leaves the loop and ends the program
Apply(op) ==
    LET r == apply(cells_, size_, op)
        continues == same_op(op, run.op) /\ run.count \in 1 .. 3
    IN  /\ call.fn = "apply" => call.err = "none"
        /\ r.err = "none" => (continues \/ run.runs < MaxRuns)
        /\ cells_' = r.cells
        /\ before' = cells_
        /\ call' = [fn |-> "apply", op |-> op, err |-> r.err]
        /\ IF r.err # "none"
           THEN UNCHANGED <<run, runStart>>
           ELSE IF continues
                THEN /\ run' = [run EXCEPT !.count = @ + 1]
                     /\ UNCHANGED runStart
                ELSE /\ run' = [op |-> op, count |-> 1, runs |-> run.runs + 1]
                     /\ runStart' = cells_
        /\ UNCHANGED <<size_, board0, history>>
        /\ UNCHANGED solverVars

NextApply == \E op \in AnyOps(size_) : Apply(op)

SpecApply == InitApply /\ [][NextApply]_vars

(***************************************************************************)
(* SpecPairs: a search node (field, operation path) is extended by valid   *)
(* operations, and the read-only queries are called on its field.          *)
(***************************************************************************)
PairBoards ==
    {[size |-> 2, cells |-> b] : b \in WellFormed2}
        \cup {[size |-> 4, cells |-> b] : b \in WellFormed4}
        \cup IllFormed
        \cup OutOfRange

InitPairs == FieldInit(PairBoards) /\ SolverIdle

\* child.field.apply(op); child.operations.push_back(op)
NodeApply(op) ==
    /\ Len(history) < MaxOps
    /\ cells_' = applied(cells_, size_, op)
    /\ history' = Append(history, op)
    /\ before' = cells_
    /\ call' = [fn |-> "apply", op |-> op, err |-> "none"]
    /\ UNCHANGED <<size_, board0, run, runStart>>
    /\ UNCHANGED solverVars

EvaluatePairMetrics ==
    /\ call' = [fn |-> "evaluate_pair_metrics",
                ret |-> evaluate_pair_metrics(cells_, size_)]
    /\ before' = cells_
    /\ UNCHANGED <<size_, cells_, board0, history, run, runStart>>
    /\ UNCHANGED solverVars

PositionsOf(value) ==
    /\ call' = [fn |-> "positions_of", value |-> value,
                ret |-> positions_of(cells_, size_, value)]
    /\ before' = cells_
    /\ UNCHANGED <<size_, cells_, board0, history, run, runStart>>
    /\ UNCHANGED solverVars

\* the generator is handed the node's metrics, or metrics without a mask
GenerateOperations(metrics) ==
    /\ call' = [fn |-> "generate_operations", metrics |-> metrics,
                ret |-> generate_operations(cells_, size_, history, metrics, rotation_sizes)]
    /\ before' = cells_
    /\ UNCHANGED <<size_, cells_, board0, history, run, runStart>>
    /\ UNCHANGED solverVars

NextPairs ==
    \/ \E op \in ValidOps(size_) : NodeApply(op)
    \/ EvaluatePairMetrics
    \/ \E value \in -1 .. (size_ * size_) \div 2 : PositionsOf(value)
    \/ \E metrics \in {evaluate_pair_metrics(cells_, size_), EmptyMetrics} :
          GenerateOperations(metrics)

SpecPairs == InitPairs /\ [][NextPairs]_vars

(***************************************************************************)
(* Properties of the board primitive.                                      *)
(***************************************************************************)
\* validity of an operation over the mathematical integers
MathValid(op, N) ==
    /\ 2 <= op.size /\ op.size <= N
    /\ op.x + op.size <= N
    /\ op.y + op.size <= N

InFootprint(op, px, py) ==
    /\ op.x <= px /\ px < op.x + op.size
    /\ op.y <= py /\ py < op.y + op.size

Rotated123 == Board(<<7, 4, 1,  8, 5, 2,  9, 6, 3>>)

\* C1: a valid apply((x, y, k)) succeeds, the new cell at (x+dx, y+dy) holds
\* the old value of cell (x+dy, y+k-1-dx) for all dx, dy in [0, k), every
\* cell outside the footprint keeps its value, and [[1,2,3],[4,5,6],[7,8,9]]
\* with (0,0,3) becomes [[7,4,1],[8,5,2],[9,6,3]].
C1_RotationLaw ==
    (call.fn = "apply" /\ MathValid(call.op, size_)) =>
        LET op == call.op
            k == op.size
        IN  /\ call.err = "none"
            /\ \A dx \in 0 .. k - 1 : \A dy \in 0 .. k - 1 :
                  cells_[(op.y + dy) * size_ + (op.x + dx)]
                      = before[(op.y + k - 1 - dx) * size_ + (op.x + dy)]
            /\ \A idx \in DOMAIN cells_ :
                  ~InFootprint(op, idx % size_, idx \div size_)
                      => cells_[idx] = before[idx]
            /\ (before = Board123 /\ op = Operation(0, 0, 3)) => cells_ = Rotated123

C1_Witness ==
    /\ call.fn = "apply"
    /\ call.op = Operation(0, 0, 3)
    /\ before = Board123
    /\ cells_ = Rotated123

\* C2: after the fourth application in a row of one valid operation, every
\* cell holds the value it had before the first of the four.
C2_FourRotationsRestore ==
    run.count = 4 => cells_ = runStart

C2_Witness ==
    /\ run.count = 4
    /\ run.op = Operation(1, 0, 2)
    /\ runStart = Rotated123
    /\ before # cells_

\* C5: apply with k < 2, k > N or a footprint that is not inside the grid
\* fails with the invalid-operation error and leaves every cell unchanged.
C5_InvalidOpRejected ==
    (call.fn = "apply" /\ ~MathValid(call.op, size_)) =>
        /\ call.err = "invalid_argument"
        /\ cells_ = before

\* C17: for all x, y, k of std::size_t and every board size N the validity
\* predicate is true exactly when 2 <= k <= N, x + k <= N and y + k <= N hold
\* over the mathematical integers, also when x + k or y + k wraps: apply passes
\* its validity test for exactly these operations.
C17_ValidityExact ==
    call.fn = "apply" =>
        /\ is_valid(call.op, size_) <=> MathValid(call.op, size_)
        /\ call.err # "invalid_argument" <=> MathValid(call.op, size_)

(***************************************************************************)
(* Properties of pair detection, positions_of and the move generator.      *)
(***************************************************************************)
Pairs(N) == (N * N) \div 2

\* Manhattan distance of the cells with row-major indices i and j
Dist(i, j, N) == Abs((i % N) - (j % N)) + Abs((i \div N) - (j \div N))

\* on a well-formed board: the other cell with the label of cell i
Partner(cells, i) == CHOOSE j \in DOMAIN cells : j # i /\ cells[j] = cells[i]

\* on a well-formed board: the distance between the two cells labelled v
PairDist(cells, N, v) ==
    LET i == CHOOSE i \in DOMAIN cells : cells[i] = v
    IN  Dist(i, Partner(cells, i), N)

RECURSIVE SumOver(_, _, _, _)
SumOver(cells, N, labels, acc) ==
    IF labels = {}
    THEN acc
    ELSE LET v == CHOOSE v \in labels : TRUE
         IN  SumOver(cells, N, labels \ {v}, acc + PairDist(cells, N, v))

MaxOver(cells, N, labels) ==
    IF labels = {}
    THEN 0
    ELSE LET v == CHOOSE v \in labels :
                     \A w \in labels : PairDist(cells, N, w) <= PairDist(cells, N, v)
         IN  PairDist(cells, N, v)

Ones(mask) == Cardinality({i \in DOMAIN mask : mask[i] = 1})

\* C6: on every board reached from a well-formed board by valid applies,
\* evaluate_pairs gives matched + unmatched = N*N/2.
C6_PairCountTotal ==
    (call.fn = "evaluate_pair_metrics" /\ WellFormed(board0, size_)) =>
        call.ret.status.matched + call.ret.status.unmatched = Pairs(size_)

C6_Witness ==
    /\ call.fn = "evaluate_pair_metrics"
    /\ WellFormed(board0, size_)
    /\ size_ = 4
    /\ Len(history) = 2
    /\ call.ret.status.matched > 0
    /\ call.ret.status.unmatched > 0

\* C7: on a well-formed board the mask has length N*N, exactly 2*unmatched
\* bytes are 1, and a byte is 1 exactly when the two cells of its pair are at
\* a Manhattan distance other than 1.
C7_MaskMarksUnmatched ==
    (call.fn = "evaluate_pair_metrics" /\ WellFormed(cells_, size_)) =>
        LET mask == call.ret.unmatched_mask
        IN  /\ DOMAIN mask = 0 .. size_ * size_ - 1
            /\ \A i \in DOMAIN mask : mask[i] \in {0, 1}
            /\ Ones(mask) = 2 * call.ret.status.unmatched
            /\ \A i \in DOMAIN mask :
                  mask[i] = 1 <=> Dist(i, Partner(cells_, i), size_) # 1

C7_Witness ==
    /\ call.fn = "evaluate_pair_metrics"
    /\ WellFormed(cells_, size_)
    /\ size_ = 4
    /\ history # <<>>
    /\ Ones(call.ret.unmatched_mask) \in 2 .. 14

\* C8: on a well-formed board a pair is counted as matched exactly when its
\* cells are at Manhattan distance 1 and as unmatched otherwise; the total is
\* the sum and the max the maximum of the distances of the unmatched pairs
\* (0 without any); [[0,1],[1,0]] gives 0, 2, 4, 2 and a mask of ones.
C8_MetricsByDistance ==
    (call.fn = "evaluate_pair_metrics" /\ WellFormed(cells_, size_)) =>
        LET labels == 0 .. Pairs(size_) - 1
            far == {v \in labels : PairDist(cells_, size_, v) # 1}
            m == call.ret
        IN  /\ m.status.matched = Cardinality(labels \ far)
            /\ m.status.unmatched = Cardinality(far)
            /\ m.total_unmatched_distance = SumOver(cells_, size_, far, 0)
            /\ m.max_unmatched_distance = MaxOver(cells_, size_, far)
            /\ cells_ = Board0110 =>
                  /\ m.status = [matched |-> 0, unmatched |-> 2]
                  /\ m.total_unmatched_distance = 4
                  /\ m.max_unmatched_distance = 2
                  /\ m.unmatched_mask = Board(<<1, 1, 1, 1>>)

C8_Witness ==
    /\ call.fn = "evaluate_pair_metrics"
    /\ cells_ = Board0110
    /\ call.ret.total_unmatched_distance = 4
    /\ call.ret.unmatched_mask = Board(<<1, 1, 1, 1>>)

\* C9: after any sequence of valid applies to a well-formed board,
\* positions_of(v) returns 2 coordinates, both holding v, for v in
\* [0, N*N/2) and none for any other v.
C9_PositionsOfWellFormed ==
    (call.fn = "positions_of" /\ WellFormed(board0, size_)) =>
        /\ Len(call.ret) = IF call.value \in 0 .. Pairs(size_) - 1 THEN 2 ELSE 0
        /\ \A i \in 1 .. Len(call.ret) :
              cells_[call.ret[i].y * size_ + call.ret[i].x] = call.value

C9_Witness ==
    /\ call.fn = "positions_of"
    /\ WellFormed(board0, size_)
    /\ size_ = 4
    /\ Len(history) = 2
    /\ cells_ # board0
    /\ Len(call.ret) = 2

\* C10: with a non-empty history the move generator never returns the last
\* operation of the history, with the mask in use or not.
C10_LastOpSkipped ==
    (call.fn = "generate_operations" /\ history # <<>>) =>
        \A i \in 1 .. Len(call.ret) : call.ret[i] # history[Len(history)]

\* the last operation touches unmatched cells, so only the filter on the
\* previous operation keeps it out of the masked list
C10_Witness ==
    /\ call.fn = "generate_operations"
    /\ Len(history) = 2
    /\ history[1] # history[2]
    /\ use_mask(size_, call.metrics)
    /\ Len(call.ret) > 0
    /\ LET op == history[2]
       IN  \E dx \in 0 .. op.size - 1 : \E dy \in 0 .. op.size - 1 :
              call.metrics.unmatched_mask[(op.y + dy) * size_ + (op.x + dx)] = 1

\* the number of mask cells set to 1 inside the footprint of op
Impact(mask, N, op) ==
    Cardinality({c \in (0 .. op.size - 1) \X (0 .. op.size - 1) :
                    mask[(op.y + c[2]) * N + (op.x + c[1])] = 1})

\* op a is enumerated before op b: sizes in the order of rotation_sizes,
\* then rows, then columns
EnumeratedBefore(a, b) ==
    \/ a.size < b.size
    \/ a.size = b.size /\ a.y < b.y
    \/ a.size = b.size /\ a.y = b.y /\ a.x < b.x

\* C11: when metrics.unmatched > 0 and the mask has N*N cells, every
\* operation the move generator returns has impact > 0, the returned
\* sequence is non-increasing in impact, and operations of equal impact keep
\* their enumeration order.
C11_ImpactOrdered ==
    (/\ call.fn = "generate_operations"
     /\ call.metrics.status.unmatched > 0
     /\ cell_count(call.metrics.unmatched_mask) = size_ * size_) =>
        LET mask == call.metrics.unmatched_mask
            ret == call.ret
        IN  /\ \A i \in 1 .. Len(ret) : Impact(mask, size_, ret[i]) > 0
            /\ \A i \in 1 .. Len(ret) : \A j \in 1 .. Len(ret) :
                  i < j =>
                     /\ Impact(mask, size_, ret[i]) >= Impact(mask, size_, ret[j])
                     /\ Impact(mask, size_, ret[i]) = Impact(mask, size_, ret[j])
                           => EnumeratedBefore(ret[i], ret[j])

\* a masked call that drops a zero-impact operation and returns operations
\* of equal and of different impact, the sort having moved one forward
C11_Witness ==
    /\ call.fn = "generate_operations"
    /\ call.metrics.status.unmatched > 0
    /\ cell_count(call.metrics.unmatched_mask) = size_ * size_
    /\ LET mask == call.metrics.unmatched_mask
           ret == call.ret
       IN  /\ \E op \in ValidOps(size_) :
                 /\ Impact(mask, size_, op) = 0
                 /\ (history # <<>> => op # history[Len(history)])
           /\ \E i \in 1 .. Len(ret) : \E j \in 1 .. Len(ret) :
                 i < j /\ Impact(mask, size_, ret[i]) = Impact(mask, size_, ret[j])
           /\ \E i \in 1 .. Len(ret) : \E j \in 1 .. Len(ret) :
                 /\ i < j
                 /\ Impact(mask, size_, ret[i]) > Impact(mask, size_, ret[j])
                 /\ EnumeratedBefore(ret[j], ret[i])

\* the mask evaluate_pair_metrics gives for a board
unmatched_mask_of(cells, N) == evaluate_pair_metrics(cells, N).unmatched_mask

\* C15: on a well-formed board, a valid operation whose footprint holds no
\* cell of an unmatched pair leaves a board whose unmatched count is not
\* lower than before.
C15_ZeroImpactSound ==
    (/\ call.fn = "apply"
     /\ call.err = "none"
     /\ WellFormed(before, size_)
     /\ Impact(unmatched_mask_of(before, size_), size_, call.op) = 0) =>
        evaluate_pairs(cells_, size_).unmatched
            >= evaluate_pairs(before, size_).unmatched

\* a zero-impact operation on a board with unmatched pairs broke a matched pair
C15_Witness ==
    /\ call.fn = "apply"
    /\ call.err = "none"
    /\ WellFormed(before, size_)
    /\ evaluate_pairs(before, size_).unmatched > 0
    /\ Impact(unmatched_mask_of(before, size_), size_, call.op) = 0
    /\ evaluate_pairs(cells_, size_).unmatched
          > evaluate_pairs(before, size_).unmatched

\* the sum of the distances of the cells of far to the first cell of their label
RECURSIVE SumDist(_, _, _, _)
SumDist(first, N, far, acc) ==
    IF far = {}
    THEN acc
    ELSE LET i == CHOOSE i \in far : TRUE
         IN  SumDist(first, N, far \ {i}, acc + Dist(first[i], i, N))

\* the metrics when exactly the cells of counted take part in pair detection:
\* each cell but the first of its label is paired with that first cell
MetricsOver(cells, N, counted) ==
    LET first == [i \in counted |->
                     CHOOSE j \in counted :
                        /\ cells[j] = cells[i]
                        /\ \A k \in counted : cells[k] = cells[i] => j <= k]
        later == {i \in counted : first[i] # i}
        far == {i \in later : Dist(first[i], i, N) # 1}
    IN  [status |-> [matched |-> Cardinality(later \ far),
                     unmatched |-> Cardinality(far)],
         total_unmatched_distance |-> SumDist(first, N, far, 0),
         max_unmatched_distance |->
            IF far = {}
            THEN 0
            ELSE LET i == CHOOSE i \in far :
                             \A k \in far :
                                Dist(first[k], k, N) <= Dist(first[i], i, N)
                 IN  Dist(first[i], i, N),
         unmatched_mask |->
            [i \in DOMAIN cells |->
                IF i \in far \/ \E k \in far : first[k] = i THEN 1 ELSE 0]]

\* C16 as stated: the cells whose label is outside [0, N*N/2), negative or at
\* least N*N/2, take no part in pair detection: the metrics and the mask are
\* those of the cells with a label inside the range
C16_OutsideIgnored ==
    call.fn = "evaluate_pair_metrics" =>
        call.ret = MetricsOver(cells_, size_,
                       {i \in DOMAIN cells_ : cells_[i] \in 0 .. Pairs(size_) - 1})

\* C16 for negative labels only: the cells with a negative label take no part
\* in pair detection and set no mask byte; the cells with a label at or above
\* N*N/2 are paired like those of every other non-negative label
C16_NegativeIgnored ==
    call.fn = "evaluate_pair_metrics" =>
        call.ret = MetricsOver(cells_, size_, {i \in DOMAIN cells_ : cells_[i] >= 0})

\* two neighbours with a negative label were skipped, two cells with a label
\* at or above N*N/2 were counted as a pair
C16_Witness ==
    /\ call.fn = "evaluate_pair_metrics"
    /\ \E i \in DOMAIN cells_ : \E j \in DOMAIN cells_ :
          /\ i # j /\ cells_[i] < 0 /\ cells_[j] = cells_[i]
          /\ Dist(i, j, size_) = 1
    /\ \A i \in DOMAIN cells_ : cells_[i] < 0 \/ cells_[i] >= Pairs(size_)
    /\ call.ret.status.matched + call.ret.status.unmatched = 1

(***************************************************************************)
(* solver/beam_stack_search.cpp: evaluator, best result, limits            *)
(*                                                                         *)
(* Scores are kept in units of 0.005 / JitterLevels: every weighted term   *)
(* of the default weights is a multiple of 0.005, and the jitter, a real   *)
(* of [0, 0.001), is one of JitterLevels values below one such unit.       *)
(***************************************************************************)
\* resolution of the jitter term
JitterLevels == 2

Jitter == 0 .. JitterLevels - 1

\* default weights of BeamStackSearchConfig, in units of 0.005
match_weight == 2200
unmatched_penalty == 2600
total_distance_penalty == 52
max_distance_penalty == 15
depth_penalty == 5
operation_penalty == 10
\* the 1e6 added to the score of a solved node, in units of 0.005
solved_bonus == 200000000
\* the initial best_score, -1e18: below every score
NegInfinity == -2000000000

DefaultWeights ==
    [match_weight |-> match_weight,
     unmatched_penalty |-> unmatched_penalty,
     total_distance_penalty |-> total_distance_penalty,
     max_distance_penalty |-> max_distance_penalty,
     depth_penalty |-> depth_penalty,
     operation_penalty |-> operation_penalty]

\* Node{}
EmptyNode ==
    [field |-> <<>>, operations |-> <<>>, metrics |-> EmptyMetrics,
     depth |-> 0, score |-> 0]

\* BeamStackSearchResult{}
EmptyResult ==
    [operations |-> <<>>, status |-> [matched |-> 0, unmatched |-> 0],
     explored_nodes |-> 0, solved |-> FALSE]

\* evaluate(node) with the value drawn for the jitter
evaluate_no_bonus(node, cfg, jitter) ==
    LET w == cfg.weights
    IN  (w.match_weight * node.metrics.status.matched
           - w.unmatched_penalty * node.metrics.status.unmatched
           - w.total_distance_penalty * node.metrics.total_unmatched_distance
           - w.max_distance_penalty * node.metrics.max_unmatched_distance
           - w.depth_penalty * node.depth
           - w.operation_penalty * Len(node.operations)) * JitterLevels + jitter
evaluate(node, cfg, jitter) ==
    LET status == node.metrics.status
        w == cfg.weights
        matched_score == w.match_weight * status.matched
        unmatched_term == w.unmatched_penalty * status.unmatched
        total_term == w.total_distance_penalty * node.metrics.total_unmatched_distance
        max_term == w.max_distance_penalty * node.metrics.max_unmatched_distance
        depth_term == w.depth_penalty * node.depth
        op_term == w.operation_penalty * Len(node.operations)
        score == (matched_score - unmatched_term - total_term - max_term
                    - depth_term - op_term) * JitterLevels + jitter
    IN  IF status.unmatched = 0
        THEN score + solved_bonus * JitterLevels
        ELSE score

\* the solved flag update_best records for a node
solved_flag_always(node) == TRUE
solved_flag(node) == node.metrics.status.unmatched = 0

\* the status update_best records for a node
recorded_status_stale(node, res) == res.status
recorded_status(node, res) == node.metrics.status

\* update_best: the result and best_score it leaves
update_best_latest(node, res, best) ==
    [result |-> [res EXCEPT !.operations = node.operations,
                            !.status = recorded_status(node, res),
                            !.solved = solved_flag(node)],
     best_score |-> node.score]
update_best(node, res, best) ==
    IF node.score > best
    THEN [result |-> [res EXCEPT !.operations = node.operations,
                                 !.status = recorded_status(node, res),
                                 !.solved = solved_flag(node)],
          best_score |-> node.score]
    ELSE [result |-> res, best_score |-> best]

\* ceil(base * num / den)
ceil_mul(base, num, den) == (base * num + den - 1) \div den

\* significant bits of a double, scaled with the integer width as 53 of 64
MantissaBits == WordBits - 1

\* the spacing of the doubles around v
ulp(v) ==
    LET e == CHOOSE e \in 0 .. 30 - MantissaBits :
                /\ v < 2 ^ (MantissaBits + e)
                /\ \A f \in 0 .. e - 1 : v >= 2 ^ (MantissaBits + f)
    IN  2 ^ e

\* static_cast<double>(v): the nearest double, ties to the even neighbour
ToDouble(v) ==
    LET u == ulp(v)
        lo == (v \div u) * u
        r == v - lo
    IN  IF 2 * r < u THEN lo
        ELSE IF 2 * r > u THEN lo + u
        ELSE IF (lo \div u) % 2 = 0 THEN lo
        ELSE lo + u

\* std::pow(normalized, exponent) as [num, den], normalized = max(1, N / 8),
\* for the exponents of size_scale, depth_scale, node_scale, child_scale
pow_normalized(board_size, scale) ==
    LET table ==
            [size_scale  |-> [n12 |-> 1728714, n16 |-> 2549121, n24 |-> 4406702],
             depth_scale |-> [n12 |-> 1660023, n16 |-> 2378414, n24 |-> 3948222],
             node_scale  |-> [n12 |-> 3375000, n16 |-> 8000000, n24 |-> 27000000],
             child_scale |-> [n12 |-> 1562070, n16 |-> 2143547, n24 |-> 3348370]]
    IN  [num |-> CASE board_size <= 8 -> 1000000
                   [] board_size = 12 -> table[scale].n12
                   [] board_size = 16 -> table[scale].n16
                   [] board_size = 24 -> table[scale].n24,
         den |-> 1000000]

\* the scale factor derive_limits uses: 1.0 unless adaptive_limits
scale_factor(cfg, board_size, scale) ==
    IF cfg.adaptive_limits
    THEN pow_normalized(board_size, scale)
    ELSE [num |-> 1, den |-> 1]

\* scale_up of derive_limits: the values the build can return. The cast of a
\* double above SIZE_MAX back to std::size_t is undefined and may give any
\* value.
scale_up(base, factor) ==
    IF base = 0
    THEN {0}
    ELSE LET b == ToDouble(base)
             scaled == ToDouble(ceil_mul(b, factor.num, factor.den))
             clamped == Min(scaled, ToDouble(SIZE_MAX))
             r == Max(b, clamped)
         IN  IF r > SIZE_MAX THEN 0 .. SIZE_MAX ELSE {r}

\* derive_limits: the limits the build can return
derive_limits(cfg, board_size) ==
    LET floors == cfg.adaptive_limits /\ board_size <= 8
        capped(beam0) ==
            LET beam1 == IF cfg.beam_width_cap > 0
                         THEN Min(beam0, cfg.beam_width_cap)
                         ELSE beam0
            IN  IF beam1 = 0 THEN 1 ELSE beam1
    IN  { [beam_width |-> capped(beam0),
           max_depth |-> IF floors THEN Max(depth, 48) ELSE depth,
           max_nodes |-> IF floors THEN Max(nodes, 280000) ELSE nodes,
           max_children_per_node |-> IF floors THEN Max(kids, 64) ELSE kids] :
          <<beam0, depth, nodes, kids>> \in
             scale_up(cfg.beam_width, scale_factor(cfg, board_size, "size_scale"))
               \X scale_up(cfg.max_depth, scale_factor(cfg, board_size, "depth_scale"))
               \X scale_up(cfg.max_nodes, scale_factor(cfg, board_size, "node_scale"))
               \X (IF cfg.max_children_per_node > 0
                   THEN scale_up(cfg.max_children_per_node,
                                 scale_factor(cfg, board_size, "child_scale"))
                   ELSE {0}) }

\* static_cast<std::size_t>(std::ceil(base * factor)) for the factor
\* num / den formed in double (1.0 + 0.45 * i, 1.0 + 0.6 * i): the factor is
\* rounded, so when base * num / den is a whole number the product can lie
\* just above it and the ceiling be one more (100 * 2.2 gives 221)
ceil_double(base, num, den) ==
    LET exact == ceil_mul(base, num, den)
    IN  IF base > 0 /\ (base * num) % den = 0 /\ num % den # 0
        THEN {exact, exact + 1}
        ELSE {exact}

\* the limits of iteration i, widened from base_limits (lines 536-558)
widen_limits(base, cfg, i) ==
    IF i = 0
    THEN {base}
    ELSE LET depth_bonus == 10 * i
             child_bonus == Max(8, i * 5)
         IN  { [beam_width |->
                   IF cfg.beam_width_cap > 0 THEN Min(beam0, cfg.beam_width_cap) ELSE beam0,
                max_nodes |-> nodes,
                max_depth |->
                   IF base.max_depth > 0 THEN base.max_depth + depth_bonus
                                         ELSE base.max_depth,
                max_children_per_node |->
                   IF base.max_children_per_node > 0
                   THEN base.max_children_per_node + child_bonus
                   ELSE base.max_children_per_node] :
               beam0 \in ceil_double(base.beam_width, 100 + 45 * i, 100),
               nodes \in (IF base.max_nodes > 0
                          THEN ceil_double(base.max_nodes, 10 + 6 * i, 10)
                          ELSE {base.max_nodes}) }

\* Field::zobrist_hash: the 64-bit digest is represented by the cells it is
\* computed from (distinct boards of one run get distinct digests)
zobrist_hash(cells) == cells

Range(f) == {f[i] : i \in DOMAIN f}

\* what std::partial_sort to k followed by resize(k) can leave: the k
\* highest scores in descending order, nodes of equal score in any order
TopK_front(nodes, k) == {SubSeq(nodes, 1, k)}
TopK(nodes, k) ==
    LET picks == {t \in [1 .. k -> 1 .. Len(nodes)] :
                    /\ \A i \in 1 .. k : \A j \in 1 .. k :
                          i < j => /\ t[i] # t[j]
                                   /\ nodes[t[i]].score >= nodes[t[j]].score
                    /\ \A r \in (1 .. Len(nodes)) \ Range(t) : \A i \in 1 .. k :
                          nodes[r].score <= nodes[t[i]].score}
    IN  {[i \in 1 .. k |-> nodes[t[i]]] : t \in picks}

\* the order of best_unsolved and of the driver: (unmatched, total distance)
better_partial_or_equal(a, b) ==
    \/ a.status.unmatched < b.status.unmatched
    \/ /\ a.status.unmatched = b.status.unmatched
       /\ a.total_unmatched_distance <= b.total_unmatched_distance
better_partial(a, b) ==
    \/ a.status.unmatched < b.status.unmatched
    \/ /\ a.status.unmatched = b.status.unmatched
       /\ a.total_unmatched_distance < b.total_unmatched_distance

\* a node one operation below parent, before it is scored
make_child_path_only(parent, op, N) ==
    [parent EXCEPT !.operations = Append(parent.operations, op), !.score = 0]
make_child(parent, op, N) ==
    LET cells == applied(parent.field, N, op)
        ops == Append(parent.operations, op)
    IN  [field |-> cells,
         operations |-> ops,
         depth |-> parent.depth + 1,
         metrics |-> evaluate_pair_metrics(cells, N),
         score |-> 0]

(***************************************************************************)
(* Spec: one call of BeamStackSearchSolver::solve                          *)
(***************************************************************************)
\* readings the clock can give, in ms; time only moves forward
Ticks == {0, 18, 21}

\* a poll of timer.elapsed_ms() when the configuration has a deadline
Readings == IF config.time_limit_ms > 0 THEN {t \in Ticks : t >= now} ELSE {now}

has_deadline == config.time_limit_ms > 0
\* elapsed > time_limit_ms, elapsed < time_limit_ms
past_limit_never(t) == FALSE
past_limit(t) == has_deadline /\ t > config.time_limit_ms
before_limit(t) == ~has_deadline \/ t < config.time_limit_ms
\* the same against time_limit_ms * shake_time_ratio (the ratio in percent)
past_shake_limit(t) ==
    has_deadline /\ t * 100 > config.time_limit_ms * config.shake_time_ratio
before_shake_limit(t) ==
    ~has_deadline \/ t * 100 < config.time_limit_ms * config.shake_time_ratio

BaseConfig ==
    [beam_width |-> 1, max_depth |-> 2, max_nodes |-> 0, max_children_per_node |-> 1,
     beam_width_cap |-> 0, adaptive_limits |-> FALSE, max_iterations |-> 1,
     use_global_hash |-> TRUE, time_limit_ms |-> 20,
     shake_attempts |-> 1, shake_max_length |-> 2,
     shake_time_ratio |-> 85, shake_accept_equal_probability |-> 20,
     refinement_attempts |-> 2, refinement_sample |-> 3,
     refinement_time_budget_ms |-> 0,
     rotation_sizes |-> <<3>>, weights |-> DefaultWeights]

\* widening iterations over the single operation of a 2x2 board, no deadline
WideningConfig ==
    [BaseConfig EXCEPT !.beam_width = 2, !.adaptive_limits = TRUE, !.max_iterations = 3,
                       !.time_limit_ms = 0, !.use_global_hash = FALSE,
                       !.rotation_sizes = <<2, 4>>, !.refinement_sample = 1]

\* a beam of two nodes under a cap on the explored nodes, no deadline
CappedConfig ==
    [BaseConfig EXCEPT !.beam_width = 2, !.max_nodes = 5, !.time_limit_ms = 0,
                       !.rotation_sizes = <<2>>]

\* a board a rotation leaves as it is
Uniform2 == Board(<<0, 0, 0, 0>>)

Problems ==
    {[size |-> 2, entities |-> b] : b \in WellFormed2}
        \cup {[size |-> 4, entities |-> b] : b \in WellFormed4}
        \cup {[size |-> b.size, entities |-> b.cells] : b \in IllFormed}
        \cup {[size |-> 2, entities |-> Uniform2]}

\* the configuration each problem is solved with
config_of(p) ==
    CASE p.size = 4 -> BaseConfig
      [] WellFormed(p.entities, p.size) -> WideningConfig
      [] OTHER -> CappedConfig

\* a deadline and shakes over the one operation of a 2x2 board
ShakeConfig(ratio) ==
    [BaseConfig EXCEPT !.shake_time_ratio = ratio, !.rotation_sizes = <<2>>]

\* shake_time_ratio, in percent: the default 0.85, and a ratio above one
ShakeRatios == {85, 150}

\* a board no rotation brings nearer to the goal
Diagonal2 == Board(<<0, 1, 1, 0>>)

\* no beam layer is expanded: the root is only shaken and refined, no deadline
WalkConfig ==
    [BaseConfig EXCEPT !.max_depth = 0, !.time_limit_ms = 0]

\* a walk that ends at the distance it started from is never accepted
NoEqualConfig ==
    [ShakeConfig(85) EXCEPT !.time_limit_ms = 0, !.shake_accept_equal_probability = 0]

\* a board with children nearer to and further from the goal
Scattered4 == Board(<<3, 3, 4, 4,  2, 1, 6, 7,  2, 1, 5, 5,  0, 0, 7, 6>>)

\* the root goes straight to greedy refinement, which looks at the first
\* sample candidates of each round
RefineConfig(sample) ==
    [WalkConfig EXCEPT !.shake_attempts = 0, !.rotation_sizes = <<2>>,
                       !.refinement_sample = sample]

RefineSamples == {0, 3}

\* no refinement round is asked for
NoAttemptConfig == [RefineConfig(3) EXCEPT !.refinement_attempts = 0]

\* a board whose first candidate operation brings two pairs nearer
Twisted4 == Board(<<0, 0, 1, 1,  2, 3, 3, 4,  6, 6, 5, 4,  5, 2, 7, 7>>)

\* one layer of rotations of size 6 under a cap of two explored nodes, no
\* deadline, no shake
FarConfig ==
    [BaseConfig EXCEPT !.max_depth = 1, !.max_nodes = 2, !.time_limit_ms = 0,
                       !.shake_attempts = 0, !.rotation_sizes = <<6>>,
                       !.refinement_attempts = 1, !.refinement_sample = 1]

\* a well-formed board of far-apart pairs: a rotation brings many of them
\* nearer and parts a matched pair
Far8 ==
    Board(<< 5, 25,  3, 19,  1,  6, 10, 31,
            16,  4,  0, 11,  8, 12, 17, 28,
             9, 24, 24,  0, 20, 30, 14, 21,
             2,  7, 10, 13, 13, 30, 27, 29,
            12, 22, 31,  6,  2, 26, 26, 15,
            23, 23,  1, 19,  9,  5, 20, 18,
            14, 18, 16, 25,  4,  7, 22,  3,
            29, 15, 21, 27, 28, 17,  8, 11>>)

Runs ==
    {[problem |-> p, config |-> config_of(p)] : p \in Problems}
        \cup {[problem |-> [size |-> 8, entities |-> Far8], config |-> FarConfig]}
        \cup {[problem |-> [size |-> 4, entities |-> Twisted4],
                config |-> c] : c \in {RefineConfig(n) : n \in RefineSamples}
                                         \cup {NoAttemptConfig}}
        \cup {[problem |-> [size |-> 2, entities |-> Diagonal2],
                config |-> c] : c \in {ShakeConfig(r) : r \in ShakeRatios}
                                         \cup {NoEqualConfig}}
        \cup {[problem |-> [size |-> 4, entities |-> Scattered4],
                config |-> WalkConfig]}

make_field(p) == p.entities

board_size == problem.size

\* no field is under test
FieldIdle ==
    /\ size_ = 0 /\ cells_ = <<>> /\ board0 = <<>> /\ history = <<>>
    /\ before = <<>> /\ call = NoCall /\ run = NoRun /\ runStart = <<>>

NoLocals == [active |-> FALSE]

Init ==
    /\ FieldIdle
    /\ \E r \in Runs : problem = r.problem /\ config = r.config
    /\ pc = "start"
    /\ now = 0
    /\ result = EmptyResult
    /\ best_score = NegInfinity
    /\ drv = NoLocals
    /\ iter = NoLocals
    /\ shk = NoLocals
    /\ ref = NoLocals

\* solve, lines 513-533: the root node and the first best result
SolveBegin ==
    /\ pc = "start"
    /\ \E j \in Jitter :
          LET cells == make_field(problem)
              root0 == [EmptyNode EXCEPT
                          !.field = cells,
                          !.metrics = evaluate_pair_metrics(cells, board_size)]
              root == [root0 EXCEPT !.score = evaluate(root0, config, j)]
              best == update_best(root, result, best_score)
          IN  /\ result' = best.result
              /\ best_score' = best.best_score
              /\ \E limits \in derive_limits(config, board_size) :
                    drv' = [base_limits |-> limits,
                            iter_limits |-> limits,
                            current_root |-> root,
                            max_iterations |->
                               IF config.adaptive_limits
                               THEN Max(1, config.max_iterations)
                               ELSE 1,
                            iteration |-> 0,
                            shakes_used |-> 0]
    /\ pc' = "loop"
    /\ UNCHANGED <<problem, config, now, iter, shk, ref>>
    /\ UNCHANGED fieldVars

\* the while condition, the limits of the iteration, and run_search_iteration
\* up to its layer loop (lines 535-561, 167-184)
LoopHead ==
    /\ pc = "loop"
    /\ \E t \in Readings :
          /\ now' = t
          /\ IF before_limit(t) /\ drv.iteration < drv.max_iterations
             THEN LET root == drv.current_root
                      best == update_best(root, result, best_score)
                      unsolved == root.metrics.status.unmatched > 0
                  IN  /\ \E limits \in widen_limits(drv.base_limits, config,
                                                     drv.iteration) :
                            drv' = [drv EXCEPT !.iter_limits = limits]
                      /\ result' = best.result
                      /\ best_score' = best.best_score
                      /\ iter' = [outcome |->
                                     [solved |-> FALSE,
                                      reached_limit |-> FALSE,
                                      has_best_unsolved |-> unsolved,
                                      best_unsolved |-> IF unsolved THEN root ELSE EmptyNode],
                                  current_layer |-> <<root>>,
                                  next_layer |-> <<>>,
                                  visited |-> IF config.use_global_hash
                                              THEN {zobrist_hash(root.field)}
                                              ELSE {},
                                  relative_depth |-> 0,
                                  node_idx |-> 1,
                                  candidate_ops |-> <<>>,
                                  op_idx |-> 1,
                                  children |-> <<>>]
                      /\ pc' = "layer"
             ELSE /\ pc' = "after_loop"
                  /\ UNCHANGED <<drv, result, best_score, iter>>
    /\ UNCHANGED <<problem, config, shk, ref>>
    /\ UNCHANGED fieldVars

\* an iteration ends: control returns to the driver (iteration_finished)
Finish(outcome) ==
    /\ iter' = [iter EXCEPT !.outcome = outcome]
    /\ pc' = "iter_end"

\* head of the layer loop (lines 186-193)
LayerHead ==
    /\ pc = "layer"
    /\ IF iter.relative_depth < drv.iter_limits.max_depth /\ iter.current_layer # <<>>
       THEN \E t \in Readings :
               /\ now' = t
               /\ IF past_limit(t)
                  THEN Finish([iter.outcome EXCEPT !.reached_limit = TRUE])
                  ELSE /\ iter' = [iter EXCEPT !.next_layer = <<>>, !.node_idx = 1]
                       /\ pc' = "node"
       ELSE /\ Finish(iter.outcome)
            /\ UNCHANGED now
    /\ UNCHANGED <<problem, config, result, best_score, drv, shk, ref>>
    /\ UNCHANGED fieldVars

node_limit_hit ==
    drv.iter_limits.max_nodes > 0 /\ result.explored_nodes >= drv.iter_limits.max_nodes

\* head of the loop over the nodes of the layer (lines 195-216)
NodeHead ==
    /\ pc = "node"
    /\ IF iter.node_idx > Len(iter.current_layer)
       THEN /\ pc' = "layer_end"
            /\ UNCHANGED <<now, iter>>
       ELSE LET node == iter.current_layer[iter.node_idx]
                limits == drv.iter_limits
                too_deep == limits.max_depth > 0 /\ node.depth >= limits.max_depth
                ops == IF too_deep
                       THEN <<>>
                       ELSE generate_operations(node.field, board_size, node.operations,
                                                node.metrics, config.rotation_sizes)
            IN  \E t \in Readings :
                   /\ now' = t
                   /\ IF past_limit(t) \/ node_limit_hit
                      THEN Finish([iter.outcome EXCEPT !.reached_limit = TRUE])
                      ELSE IF too_deep \/ ops = <<>>
                           THEN /\ iter' = [iter EXCEPT !.node_idx = @ + 1]
                                /\ pc' = "node"
                           ELSE /\ iter' = [iter EXCEPT !.candidate_ops = ops,
                                                        !.op_idx = 1,
                                                        !.children = <<>>]
                                /\ pc' = "child"
    /\ UNCHANGED <<problem, config, result, best_score, drv, shk, ref>>
    /\ UNCHANGED fieldVars

\* the visited set after a new hash was inserted (lines 238-243)
visited_after_stale(visited, hash) == visited
visited_after(visited, hash) ==
    LET grown == visited \cup {hash}
        visited_cap == IF drv.iter_limits.max_nodes > 0
                       THEN Wrap(drv.iter_limits.max_nodes * 4)
                       ELSE 0
    IN  IF visited_cap > 0 /\ Cardinality(grown) > visited_cap
        THEN {hash}
        ELSE grown

\* one pass of the loop over candidate_ops (lines 218-270)
Child ==
    /\ pc = "child"
    /\ LET node == iter.current_layer[iter.node_idx]
           op == iter.candidate_ops[iter.op_idx]
           child0 == make_child(node, op, board_size)
           hash == zobrist_hash(child0.field)
           next_pc == IF iter.op_idx + 1 > Len(iter.candidate_ops)
                      THEN "node_end"
                      ELSE "child"
           out == iter.outcome
           visited1 == IF config.use_global_hash
                       THEN visited_after(iter.visited, hash)
                       ELSE iter.visited
           out1 == IF \/ ~out.has_best_unsolved
                      \/ better_partial(child0.metrics, out.best_unsolved.metrics)
                   THEN "replace"
                   ELSE "keep"
       IN  \E t \in Readings :
              /\ now' = t
              /\ IF past_limit(t) \/ node_limit_hit
                 THEN /\ Finish([out EXCEPT !.reached_limit = TRUE])
                      /\ UNCHANGED <<result, best_score>>
                 ELSE IF config.use_global_hash /\ hash \in iter.visited
                 THEN /\ iter' = [iter EXCEPT !.op_idx = @ + 1]
                      /\ pc' = next_pc
                      /\ UNCHANGED <<result, best_score>>
                 ELSE \E j \in Jitter :
                         LET child == [child0 EXCEPT !.score = evaluate(child0, config, j)]
                             best == update_best(child, result, best_score)
                         IN  /\ result' = [best.result EXCEPT !.explored_nodes = @ + 1]
                             /\ best_score' = best.best_score
                             /\ IF child.metrics.status.unmatched = 0
                                THEN /\ iter' = [iter EXCEPT
                                                   !.visited = visited1,
                                                   !.children = Append(@, child),
                                                   !.outcome = [out EXCEPT !.solved = TRUE]]
                                     /\ pc' = "iter_end"
                                ELSE /\ iter' = [iter EXCEPT
                                                   !.visited = visited1,
                                                   !.children = Append(@, child),
                                                   !.op_idx = @ + 1,
                                                   !.outcome =
                                                      IF out1 = "replace"
                                                      THEN [out EXCEPT
                                                              !.best_unsolved = child,
                                                              !.has_best_unsolved = TRUE]
                                                      ELSE out]
                                     /\ pc' = next_pc
    /\ UNCHANGED <<problem, config, drv, shk, ref>>
    /\ UNCHANGED fieldVars

\* the number of children kept for a node (lines 281-287)
node_child_limit(node, count) ==
    LET limits == drv.iter_limits
        unmatched == node.metrics.status.unmatched
        adaptive_bonus == unmatched * 2 + Max(1, limits.beam_width \div 8)
        max_cap == IF limits.beam_width > 0
                   THEN (limits.beam_width * 3) \div 2 + 32
                   ELSE count
    IN  IF limits.max_children_per_node > 0 /\ count > limits.max_children_per_node
        THEN Min(count, Min(limits.max_children_per_node + adaptive_bonus, max_cap))
        ELSE count

\* after the loop over candidate_ops: cap the children and move them to the
\* next layer (lines 276-303)
NodeEnd ==
    /\ pc = "node_end"
    /\ LET node == iter.current_layer[iter.node_idx]
           count == Len(iter.children)
           keep == node_child_limit(node, count)
       IN  IF count = 0
           THEN /\ iter' = [iter EXCEPT !.node_idx = @ + 1]
                /\ pc' = "node"
                /\ UNCHANGED <<result, best_score>>
           ELSE \E kept \in (IF keep < count THEN TopK(iter.children, keep)
                                             ELSE {iter.children}) :
                   LET solved == {i \in 1 .. Len(kept) :
                                     kept[i].metrics.status.unmatched = 0}
                   IN  IF solved = {}
                       THEN /\ iter' = [iter EXCEPT !.next_layer = @ \o kept,
                                                    !.node_idx = @ + 1]
                            /\ pc' = "node"
                            /\ UNCHANGED <<result, best_score>>
                       ELSE LET first == CHOOSE i \in solved : \A k \in solved : i <= k
                                best == update_best(kept[first], result, best_score)
                            IN  /\ result' = best.result
                                /\ best_score' = best.best_score
                                /\ iter' = [iter EXCEPT
                                              !.next_layer = @ \o SubSeq(kept, 1, first),
                                              !.outcome = [@ EXCEPT !.solved = TRUE]]
                                /\ pc' = "iter_end"
    /\ UNCHANGED <<problem, config, now, drv, shk, ref>>
    /\ UNCHANGED fieldVars

\* after the loop over the nodes: cap the next layer to the beam width
\* (lines 306-321)
LayerEnd ==
    /\ pc = "layer_end"
    /\ LET beam == drv.iter_limits.beam_width
           count == Len(iter.next_layer)
       IN  IF count = 0
           THEN Finish(iter.outcome)
           ELSE \E kept \in (IF count > beam THEN TopK(iter.next_layer, beam)
                                             ELSE {iter.next_layer}) :
                   /\ iter' = [iter EXCEPT !.current_layer = kept,
                                           !.next_layer = <<>>,
                                           !.relative_depth = @ + 1]
                   /\ pc' = "layer"
    /\ UNCHANGED <<problem, config, now, result, best_score, drv, shk, ref>>
    /\ UNCHANGED fieldVars

\* current_root replaced by node, rescored (lines 586-588, 602-604)
Reroot_keep_base(node, j, shakes) ==
    [drv EXCEPT !.current_root = [node EXCEPT !.score = evaluate(node, config, j)],
                !.shakes_used = shakes]
Reroot(node, j, shakes) ==
    [drv EXCEPT !.current_root = [node EXCEPT !.score = evaluate(node, config, j)],
                !.base_limits = drv.iter_limits,
                !.shakes_used = shakes]

\* no improvement and no accepted shake: widen and retry, or leave the loop
\* (lines 593-599)
AdvanceOrBreak_stay == pc' = "loop" /\ UNCHANGED drv
AdvanceOrBreak ==
    IF drv.iteration + 1 < drv.max_iterations
    THEN /\ drv' = [drv EXCEPT !.base_limits = drv.iter_limits,
                               !.iteration = @ + 1,
                               !.shakes_used = 0]
         /\ pc' = "loop"
    ELSE /\ pc' = "after_loop"
         /\ UNCHANGED drv

\* the driver after run_search_iteration returned (lines 563-606)
IterEnd ==
    /\ pc = "iter_end"
    /\ iter' = NoLocals
    /\ LET out == iter.outcome
           root == drv.current_root
       IN  IF result.solved \/ out.solved \/ ~out.has_best_unsolved
           THEN /\ pc' = "after_loop"
                /\ UNCHANGED <<now, drv, shk>>
           ELSE IF better_partial(out.best_unsolved.metrics, root.metrics)
           THEN /\ \E j \in Jitter :
                      drv' = [Reroot(out.best_unsolved, j, 0) EXCEPT !.iteration = @ + 1]
                /\ pc' = "loop"
                /\ UNCHANGED <<now, shk>>
           ELSE IF config.shake_attempts > 0 /\ drv.shakes_used < config.shake_attempts
           THEN \E t \in Readings :
                   /\ now' = t
                   /\ IF before_shake_limit(t)
                      THEN /\ shk' = [node |-> root]
                           /\ pc' = "shake"
                           /\ UNCHANGED drv
                      ELSE /\ AdvanceOrBreak
                           /\ UNCHANGED shk
           ELSE /\ AdvanceOrBreak
                /\ UNCHANGED <<now, shk>>
    /\ UNCHANGED <<problem, config, result, best_score, ref>>
    /\ UNCHANGED fieldVars

\* apply_shake up to its loop (lines 330-344)
ShakeBegin ==
    /\ pc = "shake"
    /\ IF config.shake_attempts = 0 \/ config.shake_max_length = 0
       THEN /\ AdvanceOrBreak
            /\ shk' = NoLocals
            /\ UNCHANGED now
       ELSE \E t \in Readings :
               /\ now' = t
               /\ IF past_shake_limit(t)
                  THEN /\ AdvanceOrBreak
                       /\ shk' = NoLocals
                  ELSE /\ \E steps \in 1 .. Max(1, config.shake_max_length) :
                             shk' = [node |-> shk.node,
                                     candidate |-> shk.node,
                                     original_unmatched |-> shk.node.metrics.status.unmatched,
                                     original_distance |->
                                        shk.node.metrics.total_unmatched_distance
                                          + shk.node.metrics.max_unmatched_distance,
                                     steps |-> steps,
                                     applied |-> 0]
                       /\ pc' = "shake_step"
                       /\ UNCHANGED drv
    /\ UNCHANGED <<problem, config, result, best_score, iter, ref>>
    /\ UNCHANGED fieldVars

\* one step of the random walk (lines 346-373)
ShakeStep ==
    /\ pc = "shake_step"
    /\ IF shk.applied >= shk.steps
       THEN /\ pc' = "shake_end"
            /\ UNCHANGED <<now, result, best_score, drv, shk>>
       ELSE \E t \in Readings :
               /\ now' = t
               /\ LET cand == shk.candidate
                      ops == generate_operations(cand.field, board_size, cand.operations,
                                                 cand.metrics, config.rotation_sizes)
                      sample == Min(Len(ops), 64)
                  IN  IF past_shake_limit(t) \/ ops = <<>>
                      THEN /\ pc' = "shake_end"
                           /\ UNCHANGED <<result, best_score, drv, shk>>
                      ELSE \E index \in 1 .. sample : \E j \in Jitter :
                              LET moved0 == [make_child(cand, ops[index], board_size)
                                               EXCEPT !.depth = Len(cand.operations) + 1]
                                  moved == [moved0 EXCEPT
                                              !.score = evaluate(moved0, config, j)]
                                  best == update_best(moved, result, best_score)
                              IN  /\ result' = [best.result EXCEPT !.explored_nodes = @ + 1]
                                  /\ best_score' = best.best_score
                                  /\ IF moved.metrics.status.unmatched = 0
                                     THEN /\ \E j2 \in Jitter :
                                               drv' = Reroot(moved, j2, drv.shakes_used + 1)
                                          /\ shk' = NoLocals
                                          /\ pc' = "loop"
                                     ELSE /\ shk' = [shk EXCEPT !.candidate = moved,
                                                                !.applied = @ + 1]
                                          /\ pc' = "shake_step"
                                          /\ UNCHANGED drv
    /\ UNCHANGED <<problem, config, iter, ref>>
    /\ UNCHANGED fieldVars

\* the outcomes of random_.next_real(0, 1) < shake_accept_equal_probability
\* (the probability in percent)
EqualDraws_always == {TRUE}
EqualDraws ==
    {b \in BOOLEAN : IF b THEN config.shake_accept_equal_probability > 0
                          ELSE config.shake_accept_equal_probability < 100}

\* acceptance of the walk (lines 375-392) and the driver's reaction
ShakeEnd ==
    /\ pc = "shake_end"
    /\ shk' = NoLocals
    /\ LET cand == shk.candidate
           new_unmatched == cand.metrics.status.unmatched
           new_distance == cand.metrics.total_unmatched_distance
                             + cand.metrics.max_unmatched_distance
           strict_improvement ==
               \/ new_unmatched < shk.original_unmatched
               \/ /\ new_unmatched = shk.original_unmatched
                  /\ new_distance < shk.original_distance
           equal == /\ new_unmatched = shk.original_unmatched
                    /\ new_distance = shk.original_distance
       IN  \E draw \in EqualDraws :
              IF shk.applied # 0 /\ (strict_improvement \/ (equal /\ draw))
              THEN /\ \E j \in Jitter : drv' = Reroot(cand, j, drv.shakes_used + 1)
                   /\ pc' = "loop"
              ELSE AdvanceOrBreak
    /\ UNCHANGED <<problem, config, now, result, best_score, iter, ref>>
    /\ UNCHANGED fieldVars

\* the operations applied in order; err is the first exception of apply
RECURSIVE replay(_, _, _, _)
replay(cells, size, ops, i) ==
    IF i > Len(ops)
    THEN [err |-> "none", cells |-> cells]
    ELSE LET r == apply(cells, size, ops[i])
         IN  IF r.err # "none" THEN r ELSE replay(r.cells, size, ops, i + 1)

\* after the main loop (line 609)
AfterLoop ==
    /\ pc = "after_loop"
    /\ IF result.solved
       THEN /\ pc' = "done"
            /\ UNCHANGED now
       ELSE \E t \in Readings :
               /\ now' = t
               /\ pc' = IF before_limit(t) THEN "refine" ELSE "done"
    /\ UNCHANGED <<problem, config, result, best_score, drv, iter, shk, ref>>
    /\ UNCHANGED fieldVars

\* greedy_refinement up to its loop (lines 397-425)
RefineBegin ==
    /\ pc = "refine"
    /\ IF result.solved
       THEN /\ pc' = "done"
            /\ UNCHANGED <<now, result, best_score, ref>>
       ELSE LET played == replay(make_field(problem), board_size, result.operations, 1)
            IN  IF played.err # "none"
                THEN /\ pc' = "threw"
                     /\ UNCHANGED <<now, result, best_score, ref>>
                ELSE \E j \in Jitter : \E t \in Readings :
                        LET state0 == [EmptyNode EXCEPT
                                         !.field = played.cells,
                                         !.operations = result.operations,
                                         !.metrics = evaluate_pair_metrics(played.cells,
                                                                           board_size),
                                         !.depth = Len(result.operations)]
                            state == [state0 EXCEPT !.score = evaluate(state0, config, j)]
                            best == update_best(state, result, best_score)
                        IN  /\ best_score' = best.best_score
                            /\ IF state.metrics.status.unmatched = 0
                               THEN /\ result' = [best.result EXCEPT
                                                    !.solved = TRUE,
                                                    !.status = state.metrics.status]
                                    /\ pc' = "done"
                                    /\ UNCHANGED <<now, ref>>
                               ELSE /\ result' = best.result
                                    /\ now' = t
                                    /\ ref' = [state |-> state,
                                               best_metrics |-> state.metrics,
                                               best_ops |-> state.operations,
                                               improved |-> FALSE,
                                               attempt |-> 0,
                                               refinement_start_ms |-> t]
                                    /\ pc' = "refine_round"
    /\ UNCHANGED <<problem, config, drv, iter, shk>>
    /\ UNCHANGED fieldVars

refinement_distance(metrics) ==
    metrics.total_unmatched_distance + metrics.max_unmatched_distance

\* the loop over the first inspect candidates (lines 443-477): the child held
\* in best_child when it ends
RECURSIVE pick_child(_, _, _, _, _)
pick_child_first(state, ops, idx, inspect, picked) ==
    [has_child |-> TRUE,
     best_child |-> [make_child(state, ops[1], board_size)
                       EXCEPT !.depth = Len(state.operations) + 1]]
pick_child(state, ops, idx, inspect, picked) ==
    IF idx > inspect
    THEN picked
    ELSE LET child == [make_child(state, ops[idx], board_size)
                         EXCEPT !.depth = Len(state.operations) + 1]
             child_unmatched == child.metrics.status.unmatched
             state_unmatched == state.metrics.status.unmatched
             skip == \/ child_unmatched > state_unmatched
                     \/ /\ child_unmatched = state_unmatched
                        /\ refinement_distance(child.metrics)
                             >= refinement_distance(state.metrics)
             take == \/ ~picked.has_child
                     \/ better_partial(child.metrics, picked.best_child.metrics)
         IN  pick_child(state, ops, idx + 1, inspect,
                IF ~skip /\ take
                THEN [has_child |-> TRUE, best_child |-> child]
                ELSE picked)

\* one round of greedy_refinement (lines 427-500)
RefineRound ==
    /\ pc = "refine_round"
    /\ IF ref.attempt >= Max(1, config.refinement_attempts)
       THEN /\ pc' = "refine_end"
            /\ UNCHANGED <<now, result, best_score, ref>>
       ELSE \E t \in Readings : \E j \in Jitter :
               /\ now' = t
               /\ LET state == ref.state
                      ops == generate_operations(state.field, board_size, state.operations,
                                                 state.metrics, config.rotation_sizes)
                      inspect == Min(Len(ops), Max(1, config.refinement_sample))
                      picked == pick_child(state, ops, 1, inspect,
                                           [has_child |-> FALSE, best_child |-> EmptyNode])
                      next0 == [picked.best_child EXCEPT
                                  !.score = evaluate(picked.best_child, config, j)]
                      next == [next0 EXCEPT
                                  !.metrics = evaluate_pair_metrics(next0.field, board_size)]
                      counted == [result EXCEPT !.explored_nodes = @ + inspect]
                      best == update_best(next, counted, best_score)
                      record == better_partial(next.metrics, ref.best_metrics)
                  IN  IF \/ past_limit(t)
                         \/ /\ config.refinement_time_budget_ms > 0
                            /\ t - ref.refinement_start_ms > config.refinement_time_budget_ms
                         \/ ops = <<>>
                      THEN /\ pc' = "refine_end"
                           /\ UNCHANGED <<result, best_score, ref>>
                      ELSE IF ~picked.has_child
                      THEN /\ result' = counted
                           /\ pc' = "refine_end"
                           /\ UNCHANGED <<best_score, ref>>
                      ELSE /\ result' = best.result
                           /\ best_score' = best.best_score
                           /\ ref' = [ref EXCEPT
                                        !.state = next,
                                        !.improved = TRUE,
                                        !.best_metrics = IF record THEN next.metrics ELSE @,
                                        !.best_ops = IF record THEN next.operations ELSE @,
                                        !.attempt = @ + 1]
                           /\ pc' = IF next.metrics.status.unmatched = 0
                                    THEN "refine_end"
                                    ELSE "refine_round"
    /\ UNCHANGED <<problem, config, drv, iter, shk>>
    /\ UNCHANGED fieldVars

\* the result written back by greedy_refinement and its return value
\* (lines 502-509); solve returns
RefineEnd ==
    /\ pc = "refine_end"
    /\ result' = IF ref.improved
                 THEN [result EXCEPT
                         !.operations = ref.best_ops,
                         !.status = ref.best_metrics.status,
                         !.solved = ref.best_metrics.status.unmatched = 0]
                 ELSE result
    /\ ref' = [active |-> FALSE, returned |-> ref.improved]
    /\ pc' = "done"
    /\ UNCHANGED <<problem, config, now, best_score, drv, iter, shk>>
    /\ UNCHANGED fieldVars

Next ==
    \/ SolveBegin
    \/ LoopHead
    \/ LayerHead
    \/ NodeHead
    \/ Child
    \/ NodeEnd
    \/ LayerEnd
    \/ IterEnd
    \/ ShakeBegin
    \/ ShakeStep
    \/ ShakeEnd
    \/ AfterLoop
    \/ RefineBegin
    \/ RefineRound
    \/ RefineEnd

Spec == Init /\ [][Next]_vars

\* solve runs on one thread that is never suspended, so a step that can be
\* taken is taken: weak fairness of Next, written with what ENABLED <<Next>>_vars
\* comes to (a step can be taken until solve has returned or thrown) and with
\* <<TRUE>>_vars for <<Next>>_vars (every step of Spec that changes vars is a
\* Next step)
FairSpec ==
    Spec /\ ([]<>(pc \in {"done", "threw"}) \/ []<><<TRUE>>_vars)

(***************************************************************************)
(* SpecLimits: derive_limits is called on base configurations and board    *)
(* sizes.                                                                  *)
(***************************************************************************)
\* values of one base limit: none, small, the first integers a double
\* cannot tell apart, the largest std::size_t
LimitValues == {0, 1, 3, 2 ^ MantissaBits, 2 ^ MantissaBits + 1, SIZE_MAX}

\* base configurations that differ from BaseConfig in one limit
LimitConfigs ==
    LET varied ==
            {[BaseConfig EXCEPT !.beam_width = v] : v \in LimitValues}
              \cup {[BaseConfig EXCEPT !.max_depth = v] : v \in LimitValues}
              \cup {[BaseConfig EXCEPT !.max_nodes = v] : v \in LimitValues}
              \cup {[BaseConfig EXCEPT !.max_children_per_node = v] : v \in LimitValues}
    IN  {[c EXCEPT !.beam_width_cap = cap, !.adaptive_limits = adaptive] :
            c \in varied, cap \in {0, 2}, adaptive \in BOOLEAN}

BoardSizes == {4, 8, 12, 16, 24}

InitLimits == FieldIdle /\ SolverIdle

\* solve calls derive_limits once, before its main loop
DeriveLimits(cfg, N) ==
    /\ call = NoCall
    /\ \E limits \in derive_limits(cfg, N) :
          call' = [fn |-> "derive_limits", config |-> cfg, board_size |-> N,
                   ret |-> limits]
    /\ UNCHANGED <<size_, cells_, board0, history, before, run, runStart>>
    /\ UNCHANGED solverVars

NextLimits == \E cfg \in LimitConfigs : \E N \in BoardSizes : DeriveLimits(cfg, N)

SpecLimits == InitLimits /\ [][NextLimits]_vars

\* C12: for every base configuration and every board size, each limit the
\* limits planner produces (beam_width, max_depth, max_nodes,
\* max_children_per_node) is greater than or equal to the corresponding value
\* of the base configuration.
C12_LimitsAtLeastBase ==
    call.fn = "derive_limits" =>
        /\ call.ret.beam_width >= call.config.beam_width
        /\ call.ret.max_depth >= call.config.max_depth
        /\ call.ret.max_nodes >= call.config.max_nodes
        /\ call.ret.max_children_per_node >= call.config.max_children_per_node

(***************************************************************************)
(* SpecScore: nodes of boards up to 24 x 24 are scored by evaluate and     *)
(* passed to update_best, as solve does with every node it builds.         *)
(***************************************************************************)
\* the largest board, and the longest operation path of a node
MaxBoard == 24
DepthCap == 4000

MaxPairs == (MaxBoard * MaxBoard) \div 2
\* the largest Manhattan distance on the board
MaxDist == 2 * (MaxBoard - 1)

\* a node with these metrics at depth d
node_of(matched, unmatched, total, max, d) ==
    [EmptyNode EXCEPT
       !.metrics = [EmptyMetrics EXCEPT
                      !.status = [matched |-> matched, unmatched |-> unmatched],
                      !.total_unmatched_distance = total,
                      !.max_unmatched_distance = max],
       !.depth = d,
       !.operations = [i \in 1 .. d |-> NoOp]]

SolvedNodes ==
    {node_of(m, 0, 0, 0, d) : m \in {0, MaxPairs}, d \in {0, DepthCap}}

\* matched up to N*N - 1 on an ill-formed board
UnsolvedNodes ==
    {node_of(m, u, u * dist, dist, d) :
        m \in {0, MaxPairs - 1, 2 * MaxPairs - 1}, u \in {1, MaxPairs},
        dist \in {2, MaxDist}, d \in {0, DepthCap}}

NoNode == [score |-> NegInfinity]

InitScore ==
    /\ FieldIdle
    /\ problem = 0 /\ config = BaseConfig /\ pc = "idle" /\ now = 0
    /\ result = EmptyResult
    /\ best_score = NegInfinity
    /\ drv = 0 /\ iter = 0 /\ shk = 0 /\ ref = 0

\* node.score = evaluate(node); update_best(node, result, best_score)
\* (lines 526-529, 252-254, 362-364); call keeps the node passed before
UpdateBest(node0, jitter) ==
    /\ IF call = NoCall THEN TRUE ELSE call.last = NoNode
    /\ LET node == [node0 EXCEPT !.score = evaluate(node0, config, jitter)]
           best == update_best(node, result, best_score)
       IN  /\ result' = best.result
           /\ best_score' = best.best_score
           /\ call' = [fn |-> "update_best", node |-> node,
                       last |-> IF call = NoCall THEN NoNode ELSE call.node]
    /\ UNCHANGED <<problem, config, pc, now, drv, iter, shk, ref>>
    /\ UNCHANGED <<size_, cells_, board0, history, before, run, runStart>>

NextScore ==
    \E node \in SolvedNodes \cup UnsolvedNodes : \E jitter \in Jitter :
       UpdateBest(node, jitter)

SpecScore == InitScore /\ [][NextScore]_vars

\* the node is solved
solved_node(node) == node.metrics.status.unmatched = 0

replayed == replay(make_field(problem), board_size, result.operations, 1)

\* solve returned after greedy_refinement ran its rounds
refined == pc = "done" /\ "returned" \in DOMAIN ref

\* C3: whenever solve returns, replaying result.operations on the initial
\* board succeeds, every operation being valid, and the board it yields has
\* the pair status (matched, unmatched) recorded in result.status.
C3_ResultReplays ==
    pc = "done" =>
        /\ \A i \in 1 .. Len(result.operations) :
              is_valid(result.operations[i], board_size)
        /\ replayed.err = "none"
        /\ evaluate_pairs(replayed.cells, board_size) = result.status

\* solve returned operations that greedy_refinement wrote back
C3_Witness ==
    /\ refined
    /\ ref.returned
    /\ result.operations # <<>>
    /\ Len(result.operations) > drv.iter_limits.max_depth

\* C4: for a well-formed initial board, when solve returns, result.solved
\* is true exactly when the replayed board is a goal state (unmatched = 0
\* and matched * 2 = size * size).
C4_SolvedIffGoal ==
    (pc = "done" /\ WellFormed(problem.entities, board_size)) =>
        (result.solved <=> is_goal_state(replayed.cells, board_size))

\* the search solved a well-formed board that did not start solved
C4_Witness ==
    /\ pc = "done"
    /\ WellFormed(problem.entities, board_size)
    /\ result.solved
    /\ result.operations # <<>>
    /\ is_goal_state(replayed.cells, board_size)

\* the last reading of the clock was more than the budget
past_deadline == has_deadline /\ now > config.time_limit_ms

\* where the driver can be once the clock has read more than the budget: out of
\* the layer, node and child loops, out of the walk of a shake, and not at the
\* start of a refinement
stopped == {"iter_end", "loop", "after_loop", "shake_end",
            "refine_round", "refine_end", "done"}

\* what a step of the driver may do once the clock has read more than the budget
winds_down ==
    /\ past_deadline' => pc' \in stopped
    /\ past_deadline =>
          /\ result'.explored_nodes = result.explored_nodes
          /\ pc = "loop" => pc' = "after_loop"
          /\ pc = "refine_round" => pc' = "refine_end"
          /\ pc # "refine_end" => result' = result

\* C13 as stated, for every configuration with a deadline: once the clock has
\* read more than time_limit_ms no node is explored, no iteration, shake or
\* refinement round starts, and the result is the one recorded so far
C13_AnyRatio == [][has_deadline => winds_down]_vars

\* C13 for shake_time_ratio <= 1: once the clock has read more than
\* time_limit_ms the driver is out of the beam iteration and of the shake, it
\* explores no further node, starts no iteration, shake or refinement round, and
\* the result changes no more, but for the refinement writing back its best
\* state when it ends
C13_DeadlineStops ==
    [][(has_deadline /\ config.shake_time_ratio <= 100) => winds_down]_vars

\* the deadline passed while a beam iteration had explored nodes, and solve
\* returned
C13_Witness ==
    /\ pc = "done"
    /\ past_deadline
    /\ config.shake_time_ratio <= 100
    /\ result.explored_nodes > 0
    /\ ~result.solved

\* solve was given a board that is in the goal state, and has returned
goal_solved == pc = "done" /\ is_goal_state(make_field(problem), board_size)

\* the result names the initial board as the solution
root_result ==
    /\ result.solved
    /\ result.operations = <<>>
    /\ result.status.matched = (board_size * board_size) \div 2
    /\ result.status.unmatched = 0

\* C14: a board that is already in the goal state is returned at once, no node
\* explored, with solved = true, no operations, matched = N*N/2 and unmatched = 0
C14_GoalAtOnce ==
    goal_solved => (root_result /\ result.explored_nodes = 0)

\* C14 without "immediately": for a board in the goal state the returned result
\* is solved with no operations, matched = N*N/2 and unmatched = 0, whatever
\* the iteration explored before solve returned
C14_GoalResult == goal_solved => root_result

\* a goal board of which a solved child was explored, and scored below the root
C14_Witness ==
    /\ goal_solved
    /\ result.explored_nodes > 0
    /\ board_size = 2

\* a beam iteration is running with the limits drv.iter_limits
searching == pc \in {"layer", "node", "child", "node_end", "layer_end"}

\* lim is base widened once by the factors of iteration index i, the products
\* rounded up over the reals
widened_once(lim, base, i) ==
    /\ lim.max_depth = base.max_depth + 10 * i
    /\ lim.max_children_per_node = base.max_children_per_node + Max(8, 5 * i)
    /\ lim.beam_width =
          LET beam == ceil_mul(base.beam_width, 100 + 45 * i, 100)
          IN  IF config.beam_width_cap > 0 THEN Min(beam, config.beam_width_cap)
                                           ELSE beam
    /\ lim.max_nodes = ceil_mul(base.max_nodes, 10 + 6 * i, 10)

\* C19 as stated: in every pass of the main loop with iteration index i > 0
\* the limits of the beam iteration are the limits derive_limits gave, widened
\* once by the factors of index i
C19_PlannerWidenedOnce ==
    (searching /\ drv.iteration > 0) =>
        \E planned \in derive_limits(config, board_size) :
           widened_once(drv.iter_limits, planned, drv.iteration)

\* lim is what a pass of index i makes of the limits prev of the pass before:
\* prev itself for i = 0, else each limit that is not 0 widened by the factors
\* of i, a product computed in double being rounded up to the next integer
widened_from(lim, prev, i) ==
    IF i = 0
    THEN lim = prev
    ELSE /\ lim.max_depth = IF prev.max_depth > 0 THEN prev.max_depth + 10 * i ELSE 0
         /\ lim.max_children_per_node =
               IF prev.max_children_per_node > 0
               THEN prev.max_children_per_node + Max(8, 5 * i)
               ELSE 0
         /\ \E up \in {0, 1} :
               LET beam == ceil_mul(prev.beam_width, 100 + 45 * i, 100) + up
               IN  lim.beam_width =
                      IF config.beam_width_cap > 0
                      THEN Min(beam, config.beam_width_cap)
                      ELSE beam
         /\ \E up \in {0, 1} :
               lim.max_nodes =
                  IF prev.max_nodes > 0
                  THEN ceil_mul(prev.max_nodes, 10 + 6 * i, 10) + up
                  ELSE 0

\* C19 for the limits of the pass before: every pass of the main loop after
\* the first takes the limits of the pass before it, and for an iteration
\* index i > 0 widens them by the factors of i, so the widening adds up over
\* the passes, after a root relocation, a rejected and an accepted shake alike
C19_WidenedFromLastPass ==
    [][(pc = "loop" /\ pc' = "layer") =>
          widened_from(drv'.iter_limits, drv.iter_limits, drv.iteration)]_vars

\* a pass of index 2 whose depth limit holds the bonus of index 1 as well
C19_Witness ==
    /\ searching
    /\ drv.iteration = 2
    /\ \E planned \in derive_limits(config, board_size) :
          drv.iter_limits.max_depth = planned.max_depth + 10 + 20

\* the two nodes are the same board reached by the same operations
same_node(a, b) == a.field = b.field /\ a.operations = b.operations

\* metrics a come strictly before b in the order (unmatched, total distance)
strictly_lower(a, b) ==
    \/ a.status.unmatched < b.status.unmatched
    \/ /\ a.status.unmatched = b.status.unmatched
       /\ a.total_unmatched_distance < b.total_unmatched_distance

\* the step replaces current_root by new after a beam iteration's return
\* (lines 602-603)
relocated(new) ==
    /\ pc = "iter_end"
    /\ iter.outcome.has_best_unsolved
    /\ same_node(new, iter.outcome.best_unsolved)
    /\ strictly_lower(new.metrics, drv.current_root.metrics)

\* the step replaces current_root by the candidate of a shake that met a
\* solved board or was accepted at its end (lines 370-373, 375-389, 584-586)
shaken(new) ==
    /\ pc \in {"shake_step", "shake_end"}
    /\ new.operations # drv.current_root.operations
    /\ \/ new.metrics.status.unmatched = 0
       \/ /\ pc = "shake_end"
          /\ same_node(new, shk.candidate)
          /\ new.metrics.status.unmatched <= drv.current_root.metrics.status.unmatched

\* C20: over a run of solve current_root is replaced only by the best partial
\* of the beam iteration that just returned, when it is strictly lower than
\* current_root in (unmatched, total_unmatched_distance), or by the candidate
\* of an accepted shake; so the unmatched count of current_root never increases.
C20_RootOnlyImproves ==
    [][(pc # "start" /\ ~same_node(drv'.current_root, drv.current_root)) =>
          /\ relocated(drv'.current_root) \/ shaken(drv'.current_root)
          /\ drv'.current_root.metrics.status.unmatched
                <= drv.current_root.metrics.status.unmatched]_vars

\* the root was moved to a best partial with fewer unmatched pairs than the
\* initial board
C20_Witness ==
    /\ pc = "loop"
    /\ drv.current_root.operations # <<>>
    /\ drv.shakes_used = 0
    /\ drv.current_root.metrics.status.unmatched
          < evaluate_pairs(make_field(problem), board_size).unmatched

\* total + max distance, the second key of the shake's order
shake_distance(m) == m.total_unmatched_distance + m.max_unmatched_distance

\* C21: a shake whose walk ended on an unsolved state replaces current_root
\* only by the state the walk ended on, and only if that state is strictly
\* lower than the root in (unmatched, total + max distance), or equal on both
\* with a draw below shake_accept_equal_probability; in every other case
\* current_root (board, operation path, metrics, depth) stays as it was.
C21_ShakeCommit ==
    [][pc = "shake_end" =>
          LET root == drv.current_root
              cand == shk.candidate
              new == drv'.current_root
              lower ==
                  \/ cand.metrics.status.unmatched < root.metrics.status.unmatched
                  \/ /\ cand.metrics.status.unmatched = root.metrics.status.unmatched
                     /\ shake_distance(cand.metrics) < shake_distance(root.metrics)
              equal ==
                  /\ cand.metrics.status.unmatched = root.metrics.status.unmatched
                  /\ shake_distance(cand.metrics) = shake_distance(root.metrics)
              may_commit ==
                  lower \/ (equal /\ config.shake_accept_equal_probability > 0)
          IN  /\ ~same_node(new, root) =>
                    /\ may_commit
                    /\ same_node(new, cand)
                    /\ new.metrics = cand.metrics /\ new.depth = cand.depth
              /\ ~may_commit => new = root]_vars

\* only a shake explored nodes, its walk was rejected, and the root is the
\* initial board as before
C21_Witness ==
    /\ pc = "after_loop"
    /\ config = WalkConfig
    /\ result.explored_nodes > 0
    /\ drv.shakes_used = 0
    /\ drv.current_root.operations = <<>>
    /\ drv.current_root.field = make_field(problem)

\* how often node n occurs among the entries idx of nodes
occurrences(nodes, idx, n) == Cardinality({i \in idx : nodes[i] = n})

\* kept is layer without the entries at the indices dropped, in some order
kept_without(kept, layer, dropped) ==
    LET stay == (1 .. Len(layer)) \ dropped
    IN  /\ Len(kept) = Cardinality(stay)
        /\ \A n \in Range(kept) \cup {layer[i] : i \in stay} :
              occurrences(kept, DOMAIN kept, n) = occurrences(layer, stay, n)

\* C22: every layer a beam iteration expands holds at most beam_width nodes,
\* the root layer one; and when the next layer is cut down to beam_width,
\* every node kept scores at least as high as every node discarded.
C22_BeamWidthKept ==
    [][/\ searching' =>
             Len(iter'.current_layer)
                <= (IF iter'.relative_depth = 0 THEN 1 ELSE drv'.iter_limits.beam_width)
       /\ (pc = "layer_end" /\ pc' = "layer"
             /\ Len(iter.next_layer) > drv.iter_limits.beam_width) =>
             /\ Len(iter'.current_layer) = drv.iter_limits.beam_width
             /\ \E dropped \in SUBSET (1 .. Len(iter.next_layer)) :
                   /\ kept_without(iter'.current_layer, iter.next_layer, dropped)
                   /\ \A d \in dropped : \A k \in DOMAIN iter'.current_layer :
                         iter'.current_layer[k].score >= iter.next_layer[d].score]_vars

\* in the first pass a layer of the full beam width, two nodes, is about to
\* be expanded, cut from the larger number of children explored for it
C22_Witness ==
    /\ pc = "layer"
    /\ iter.relative_depth = 1
    /\ drv.iter_limits.beam_width = 2
    /\ Len(iter.current_layer) = 2
    /\ result.explored_nodes > 2
    /\ drv.iteration = 0 /\ drv.shakes_used = 0

\* the hash of the child the loop over candidate_ops is about to build
next_hash ==
    zobrist_hash(applied(iter.current_layer[iter.node_idx].field, board_size,
                         iter.candidate_ops[iter.op_idx]))

\* the visited set is in use and capped
hashing == config.use_global_hash /\ drv.iter_limits.max_nodes > 0

\* C23: with use_global_hash and max_nodes > 0 the visited set of a beam
\* iteration never holds more than 4 * max_nodes hashes; it holds the root's
\* hash from the start and the hash of every child evaluated since it was last
\* cleared, and a child whose hash is in it is not evaluated, not counted in
\* explored_nodes and not added to a layer.
C23_VisitedBounded ==
    [][/\ (searching' /\ hashing') =>
             Cardinality(iter'.visited) <= 4 * drv'.iter_limits.max_nodes
       /\ (pc = "loop" /\ pc' = "layer" /\ hashing') =>
             iter'.visited = {zobrist_hash(drv.current_root.field)}
       /\ (pc = "child" /\ hashing /\ searching' /\ next_hash \in iter.visited) =>
             /\ result' = result /\ best_score' = best_score
             /\ iter'.children = iter.children
             /\ iter'.next_layer = iter.next_layer
             /\ iter'.visited = iter.visited
       /\ (pc = "child" /\ hashing /\ result'.explored_nodes # result.explored_nodes) =>
             /\ next_hash \notin iter.visited
             /\ next_hash \in iter'.visited
             /\ iter'.visited \subseteq iter.visited \cup {next_hash}
             /\ iter'.visited # {next_hash} =>
                   iter'.visited = iter.visited \cup {next_hash}
       /\ (pc \in {"node", "node_end", "layer", "layer_end"} /\ hashing /\ searching') =>
             iter'.visited = iter.visited]_vars

\* a child whose board is the root's board again was passed over: nothing was
\* evaluated and no child was kept
C23_Witness ==
    /\ pc \in {"child", "node_end"}
    /\ hashing
    /\ iter.op_idx > 1
    /\ iter.children = <<>>
    /\ result.explored_nodes = 0
    /\ iter.visited = {zobrist_hash(drv.current_root.field)}

\* the candidate operations of a refinement round and the metrics of the
\* child each gives
round_ops ==
    generate_operations(ref.state.field, board_size, ref.state.operations,
                        ref.state.metrics, config.rotation_sizes)

round_child(op) ==
    evaluate_pair_metrics(applied(ref.state.field, board_size, op), board_size)

\* metrics a come strictly before b in the order (unmatched, total + max distance)
refines(a, b) ==
    \/ a.status.unmatched < b.status.unmatched
    \/ /\ a.status.unmatched = b.status.unmatched
       /\ a.total_unmatched_distance + a.max_unmatched_distance
            < b.total_unmatched_distance + b.max_unmatched_distance

\* the candidates among the first n that give a strictly lower child
refining(n) ==
    {idx \in 1 .. Min(Len(round_ops), n) :
        refines(round_child(round_ops[idx]), ref.state.metrics)}

\* the round commits a step
committed == pc = "refine_round" /\ ref'.state # ref.state

\* C24 as stated: a round in which none of the first refinement_sample
\* candidates gives a strictly lower child commits nothing and ends the pass.
C24_FirstSample ==
    [][(pc = "refine_round" /\ refining(config.refinement_sample) = {}) =>
          /\ pc' = "refine_end"
          /\ ref' = ref]_vars

\* C24 (amended): every committed step goes to the child of one of the first
\* max(1, refinement_sample) candidates, strictly lower than the state before
\* in (unmatched, total + max distance); a round with no such child among them
\* ends the pass; the pass ends right after committing a solved state.
C24_RefinementDescends ==
    [][pc = "refine_round" =>
          LET sample_limit == Max(1, config.refinement_sample)
          IN  /\ committed =>
                    /\ refines(ref'.state.metrics, ref.state.metrics)
                    /\ \E idx \in refining(sample_limit) :
                          /\ ref'.state.field
                               = applied(ref.state.field, board_size, round_ops[idx])
                          /\ ref'.state.operations
                               = Append(ref.state.operations, round_ops[idx])
                    /\ ref'.state.metrics.status.unmatched = 0 => pc' = "refine_end"
              /\ refining(sample_limit) = {} =>
                    /\ pc' = "refine_end"
                    /\ ref' = ref]_vars

\* a second round started from a committed, unsolved state
C24_Witness ==
    /\ pc = "refine_round"
    /\ ref.improved
    /\ ref.attempt = 1
    /\ ref.state.metrics.status.unmatched > 0
    /\ Len(ref.state.operations) = Len(result.operations)
    /\ config.refinement_sample > 0

\* solve has returned, or left by an exception
returned == pc \in {"done", "threw"}

\* greedy_refinement is in its loop
in_refinement == pc \in {"refine_round", "refine_end"} /\ "attempt" \in DOMAIN ref

\* a pass of the main loop ends and another begins
next_pass == pc \in {"iter_end", "shake", "shake_step", "shake_end"} /\ pc' = "loop"

\* what a further pass changed: iteration advanced, or one more shake accepted
pass_progress ==
    \/ /\ drv'.iteration = drv.iteration + 1
       /\ drv'.iteration <= drv.max_iterations
       /\ drv'.shakes_used = 0
    \/ /\ drv'.iteration = drv.iteration
       /\ drv'.shakes_used = drv.shakes_used + 1
       /\ drv'.shakes_used <= config.shake_attempts

\* the layers a beam iteration has run stay within the max_depth it was given
layers_bounded == searching => iter.relative_depth <= drv.iter_limits.max_depth

node_consistent(n) ==
    LET played == replay(make_field(problem), board_size, n.operations, 1)
    IN  /\ played.err = "none"
        /\ n.field = played.cells
        /\ n.depth = Len(n.operations)
        /\ n.metrics = evaluate_pair_metrics(n.field, board_size)

\* the nodes the driver holds in the current state
held_nodes ==
    (IF "current_root" \in DOMAIN drv THEN {drv.current_root} ELSE {})
        \cup (IF "current_layer" \in DOMAIN iter
              THEN Range(iter.current_layer) \cup Range(iter.next_layer)
                     \cup (IF "children" \in DOMAIN iter
                           THEN Range(iter.children) ELSE {})
              ELSE {})
        \cup (IF "outcome" \in DOMAIN iter
              THEN (IF iter.outcome.has_best_unsolved
                    THEN {iter.outcome.best_unsolved} ELSE {})
              ELSE {})
        \cup (IF "node" \in DOMAIN shk THEN {shk.node} ELSE {})
        \cup (IF "candidate" \in DOMAIN shk THEN {shk.candidate} ELSE {})
        \cup (IF "state" \in DOMAIN ref THEN {ref.state} ELSE {})

\* C26: every node the driver holds (current_root, the nodes of the beam
\* layers and of the children being collected, best_unsolved, the shake
\* candidate, the refinement state) has the board its operation path gives
\* from the initial board, a depth equal to the length of that path and the
\* metrics of its board.
C26_NodesConsistent == \A n \in held_nodes : node_consistent(n)

\* a shake candidate has taken a step away from the root
C26_Witness ==
    /\ pc = "shake_step"
    /\ Len(shk.candidate.operations) > Len(shk.node.operations)
    /\ shk.candidate.field # shk.node.field
    /\ shk.candidate.depth > 0
    /\ drv.current_root = shk.node

\* the pair status of the initial board
initial_status == evaluate_pairs(make_field(problem), board_size)

\* the initial board is well-formed and the weights are the default ones
default_run ==
    /\ WellFormed(make_field(problem), board_size)
    /\ config.weights = DefaultWeights

\* C27 as stated: on a well-formed board with the default weights the result
\* solve returns reports no more unmatched pairs than the initial board has.
C27_NeverMoreUnmatched ==
    (pc = "done" /\ default_run) =>
        result.status.unmatched <= initial_status.unmatched

\* the metrics of the initial board
initial_metrics == evaluate_pair_metrics(make_field(problem), board_size)

\* C27 (amended): on a well-formed board with the default weights the result
\* solve returns reports more unmatched pairs than the initial board has only
\* as far as the initial distances pay for them in the score: (match_weight +
\* unmatched_penalty) times the excess is at most total_distance_penalty times
\* the initial total distance plus max_distance_penalty times the initial
\* largest distance.
C27_UnmatchedWithinScore ==
    (pc = "done" /\ default_run) =>
        (config.weights.match_weight + config.weights.unmatched_penalty)
              * (result.status.unmatched - initial_status.unmatched)
           <= config.weights.total_distance_penalty
                  * initial_metrics.total_unmatched_distance
                + config.weights.max_distance_penalty
                  * initial_metrics.max_unmatched_distance

\* solve returned a path that ends one unmatched pair above the initial board
C27_Witness ==
    /\ pc = "done"
    /\ default_run
    /\ result.operations # <<>>
    /\ result.status.unmatched = initial_status.unmatched + 1

====
